---- MODULE Spec2Model ----
(***************************************************************************)
(* Tollgate: a local intercepting proxy in front of an LLM API.            *)
(*                                                                         *)
(* The module models four parts of the program, each under its own         *)
(* specification over the same variables:                                  *)
(*   SpecAlerts  the Alert Evaluator        (src/src/proxy.js checkAlerts)  *)
(*   SpecTap     the stream tap             (src/src/extractor.js StreamTap)*)
(*   SpecRouter  the Adaptive Router        (src/src/router.js)             *)
(*   Spec        the Interception Gateway   (src/src/proxy.js createProxy)  *)
(*                                                                         *)
(* Conventions.  A JavaScript null/undefined is NULL (the empty tuple) and *)
(* a present value v is <<v>>, so that absent never collides with a        *)
(* number.  A configuration number that is falsy in JavaScript (0, or the  *)
(* key missing) is 0, and `x || d` is Or(x, d).  Text is a sequence of     *)
(* abstract bytes or characters (see the stream tap section).              *)
(***************************************************************************)
EXTENDS Integers, Sequences, FiniteSets, TLC

VARIABLES
  \* ---- process-wide state of proxy.js
  config,        \* the config object handed to createProxy / the router
  firedAlerts,   \* proxy.js:24 _firedAlerts, the alert dedup set
  faults,        \* the collaborators that fail in this run (fixed): storage
                 \* operations, notify, event listeners, the tap's callback
  crashed,       \* an exception has left a handler uncaught
  \* ---- observation of the Alert Evaluator (history, not program state)
  emitted,       \* what the last checkAlerts call did, in order
  lastEval,      \* the last checkAlerts call: its input and what it tested
  evals,         \* number of checkAlerts calls so far
  tierCount,     \* per tier: alerts emitted since the last 'reset' event
  \* ---- one StreamTap (extractor.js:117) and its surroundings
  tapInput,      \* the bytes the upstream will write to the tap, in all
  tapPos,        \* how many of them have been written
  tapSplit,      \* history: some chunk has ended inside a line
  tapText,       \* history: the text the chunks so far decoded to, concatenated
  tapBuffer,     \* this._buffer, the text of the unfinished line
  tapUsage,      \* this._usage, the accumulated Usage
  tapOutput,     \* the bytes pushed to the readable side, concatenated
  tapCalls,      \* the arguments of the onUsage calls so far, in order
  tapEnded,      \* _flush has run and called back
  tapError,      \* the exception that left _flush: NULL or <<kind>>
  \* ---- one call of the Adaptive Router (router.js) and its arguments
  rtBody,        \* the caller's request body object: NULL or <<object>>
  rtSnapshot,    \* the caller's latest Snapshot row: NULL or <<row>>
  rtArgs,        \* history: the two arguments as they were at the call
  rtResult,      \* what maybeReroute returned: NULL or <<result>>
  rtShould,      \* what shouldRoute returned: NULL or <<result>>
  \* ---- the gateway (proxy.js:34 createProxy), per request unless noted
  pc,            \* where the request is: idle, receiving, forwarded,
                 \* responding, done, failed
  reqBody,       \* the chunks of the body the client sends
  reqChunks,     \* proxy.js:175 reqChunks, the chunks received so far
  tg,            \* req._tgModel, req._tgRoutedFrom, req._tgRoutingHeaders
  forwarded,     \* what proxy.web sent upstream: NULL or <<body, length>>
  proxyRes,      \* the upstream response: NULL or <<status, headers, chunks>>
  resGot,        \* how many chunks of the upstream body have arrived
  handler,       \* the closure of the proxyRes handler: NULL or <<closure>>
  clientRes,     \* the client's response: status, headers, body, ended, closed
  trace,         \* history: what the request's handlers did, in order
  dbSnapshots,   \* shared: the rows of rate_limit_snapshots, oldest first
  dbCalls,       \* shared: the rows of calls, oldest first
  \* a call of one of the exported functions
  pureCall,      \* the function and its arguments: [fn, args]
  pureResult     \* what it returned: NULL before the call, <<result>> after

alertVars == <<config, firedAlerts, faults, crashed, emitted, lastEval, evals, tierCount>>
tapVars == <<tapInput, tapPos, tapSplit, tapText, tapBuffer, tapUsage, tapOutput,
             tapCalls, tapEnded, tapError>>
routerVars == <<rtBody, rtSnapshot, rtArgs, rtResult, rtShould>>
gatewayVars == <<pc, reqBody, reqChunks, tg, forwarded, proxyRes, resGot, handler,
                 clientRes, trace, dbSnapshots, dbCalls>>
pureVars == <<pureCall, pureResult>>
vars == <<config, firedAlerts, faults, crashed, emitted, lastEval, evals, tierCount,
          tapInput, tapPos, tapSplit, tapText, tapBuffer, tapUsage, tapOutput,
          tapCalls, tapEnded, tapError,
          rtBody, rtSnapshot, rtArgs, rtResult, rtShould,
          pc, reqBody, reqChunks, tg, forwarded, proxyRes, resGot, handler,
          clientRes, trace, dbSnapshots, dbCalls,
          pureCall, pureResult>>

(***************************************************************************)
(* Values                                                                  *)
(***************************************************************************)
NULL == <<>>
Some(v) == <<v>>
Val(o) == o[1]

\* JavaScript `x || d` on a number: 0 / missing is falsy.
Or(x, d) == IF x = 0 THEN d ELSE x

\* Math.round(n / d) for d > 0: the nearest integer, halves towards +infinity.
\* (The inputs of the model avoid the half-integers, where the double
\* arithmetic of ((K - r) / K) * 100 may land just below the half.)
RoundDiv(n, d) == (2 * n + d) \div (2 * d)

\* Math.round(((knownLimit - remaining) / knownLimit) * 100)
UsedPercent(knownLimit, remaining) ==
  RoundDiv(100 * (knownLimit - remaining), knownLimit)

(***************************************************************************)
(* Alert Evaluator: proxy.js checkAlerts                                   *)
(***************************************************************************)
DefaultWarningPct  == 80
DefaultCriticalPct == 95
DefaultKnownLimit  == 400000

\* ---- failing collaborators.  An effect is a record with at least op,
\* name and type.  A call that fails is followed in the sequence of effects
\* by a record of what became of the exception: "caught" where the code
\* wraps the call in try/catch or ends the promise with .catch, "thrown"
\* where it does not; nothing after a "thrown" is executed.

\* the collaborator an effect calls: for an emit the listeners of the event
KindOf(e) == IF e.op = "emit" THEN e.name ELSE e.op
Fails(e)  == KindOf(e) \in faults

Bare(e) == IF Fails(e) THEN <<e, [e EXCEPT !.op = "thrown", !.name = KindOf(e)]>> ELSE <<e>>
Try(e)  == IF Fails(e) THEN <<e, [e EXCEPT !.op = "caught", !.name = KindOf(e)]>> ELSE <<e>>

Interrupted(effects) == \E i \in 1..Len(effects) : effects[i].op = "thrown"

\* the effects executed: those up to the first exception that is thrown
Cut(effects) ==
  IF Interrupted(effects)
  THEN SubSeq(effects, 1, CHOOSE i \in 1..Len(effects) :
                            /\ effects[i].op = "thrown"
                            /\ \A j \in 1..(i - 1) : effects[j].op # "thrown")
  ELSE effects

\* a caught exception swallows what would have been thrown
Swallowed(effects) ==
  [i \in 1..Len(effects) |->
     IF effects[i].op = "thrown" THEN [effects[i] EXCEPT !.op = "caught"] ELSE effects[i]]

\* One observable effect of a handler: an event handed to emitter.emit, a
\* row handed to storage, or a message handed to the notifier.
Effect(op, name, type, threshold, usedPercent, remaining) ==
  [op |-> op, name |-> name, type |-> type, threshold |-> threshold,
   usedPercent |-> usedPercent, remaining |-> remaining]

\* proxy.js:289 / :307, the guard of a tier
TierFiresAlways(usedPercent, pct, key, fired) == usedPercent >= pct
TierFires(usedPercent, pct, key, fired) ==
  usedPercent >= pct /\ key \notin fired

\* proxy.js:319, the guard of the recovery
ResetDetectedWhenEmpty(usedPercent, warningPct, fired) == usedPercent < warningPct
ResetDetectedNever(usedPercent, warningPct, fired) == FALSE
ResetDetected(usedPercent, warningPct, fired) ==
  usedPercent < warningPct /\ Cardinality(fired) > 0

\* proxy.js:301 / :314 try { db.insertAlert(...) } catch {}
insertAlertBare(e) == Bare(e)
insertAlertTry(e) == Try(e)

\* proxy.js:297-302 / :310-315, what a firing tier does after adding its key
TierEffects(type, pct, usedPercent, remaining) ==
  Bare(Effect("emit", "alert", type, pct, usedPercent, remaining))
    \o insertAlertTry(Effect("insertAlert", "alert", type, pct, usedPercent, remaining))
    \o Try(Effect("notifyAll", "alert", type, pct, usedPercent, remaining))

\* checkAlerts(snapshot, config, emitter, db) on the dedup set `fired`.
\* Result: the dedup set afterwards, the effects in order, the usedPercent
\* computed (NULL on the early return) and the set the recovery guard tested.
checkAlerts(snapshot, cfg, fired) ==
  LET remaining == snapshot.tokensRemaining IN
  IF remaining = NULL
  THEN [fired |-> fired, effects |-> <<>>, usedPercent |-> NULL, tested |-> fired,
        thrown |-> FALSE]
  ELSE
    LET warningPct  == Or(cfg.alerts.tokenWarningPercent, DefaultWarningPct)
        criticalPct == Or(cfg.alerts.tokenCriticalPercent, DefaultCriticalPct)
        knownLimit  == Or(cfg.routing.knownLimit, DefaultKnownLimit)
        usedPercent == UsedPercent(knownLimit, Val(remaining))
        warningKey  == <<"warning", warningPct>>
        w      == TierFires(usedPercent, warningPct, warningKey, fired)
        fired1 == IF w THEN fired \cup {warningKey} ELSE fired
        eff1   == IF w THEN TierEffects("token_warning", warningPct, usedPercent, Val(remaining))
                       ELSE <<>>
        criticalKey == <<"critical", criticalPct>>
        c      == ~Interrupted(eff1)
                    /\ TierFires(usedPercent, criticalPct, criticalKey, fired1)
        fired2 == IF c THEN fired1 \cup {criticalKey} ELSE fired1
        eff2   == IF c THEN TierEffects("token_critical", criticalPct, usedPercent, Val(remaining))
                       ELSE <<>>
        r      == ~Interrupted(eff1 \o eff2)
                    /\ ResetDetected(usedPercent, warningPct, fired2)
        fired3 == IF r THEN {} ELSE fired2
        eff3   == IF r THEN Bare(Effect("emit", "reset", "reset", 0, usedPercent, Val(remaining)))
                       ELSE <<>>
    IN [fired |-> fired3, effects |-> Cut(eff1 \o eff2 \o eff3),
        thrown |-> Interrupted(eff1 \o eff2 \o eff3),
        usedPercent |-> Some(usedPercent), tested |-> fired2]

\* ---- the events of a sequence of effects
Emits(effects, type) ==
  Cardinality({i \in 1..Len(effects) : effects[i].op = "emit" /\ effects[i].type = type})

WarningPctOf(cfg)  == Or(cfg.alerts.tokenWarningPercent, DefaultWarningPct)
CriticalPctOf(cfg) == Or(cfg.alerts.tokenCriticalPercent, DefaultCriticalPct)

\* ---- the driver of SpecAlerts: checkAlerts is called with any Snapshot
MaxEvals == 4

\* tokens-remaining values: 0 %, 79 %, 80 %, 95 %, 96 %, 100 %, above the
\* limit, and absent
AlertRemaining ==
  {NULL, Some(400000), Some(84000), Some(80000), Some(20000), Some(16000),
   Some(0), Some(500000)}

\* threshold configurations: the defaults (by omission), explicit values, a
\* warning threshold raised above the critical one (--warning-threshold 97)
AlertConfigs ==
  { [alerts  |-> [tokenWarningPercent |-> w, tokenCriticalPercent |-> c],
     routing |-> [enabled |-> FALSE, threshold |-> 0, knownLimit |-> 0,
                  ladder |-> <<>>]] :
      w \in {0, 80, 97}, c \in {0, 95} }

NoEval == [remaining |-> NULL, usedPercent |-> NULL, before |-> {}, tested |-> {}]
Tiers == {"token_warning", "token_critical"}

AlertsIdle ==
  /\ crashed = FALSE
  /\ firedAlerts = {}
  /\ emitted = <<>>
  /\ lastEval = NoEval
  /\ evals = 0
  /\ tierCount = [t \in Tiers |-> 0]

CheckAlertsCall(remaining) ==
  /\ evals < MaxEvals
  /\ ~crashed
  /\ LET res == checkAlerts([tokensRemaining |-> remaining], config, firedAlerts) IN
       /\ firedAlerts' = res.fired
       /\ emitted' = res.effects
       /\ lastEval' = [remaining |-> remaining, usedPercent |-> res.usedPercent,
                       before |-> firedAlerts, tested |-> res.tested]
       /\ tierCount' = [t \in Tiers |->
                          IF Emits(res.effects, "reset") > 0 THEN 0
                          ELSE tierCount[t] + Emits(res.effects, t)]
       /\ crashed' = (crashed \/ res.thrown)
  /\ evals' = evals + 1
  /\ UNCHANGED <<config, faults>>
  /\ UNCHANGED tapVars
  /\ UNCHANGED routerVars
  /\ UNCHANGED gatewayVars
  /\ UNCHANGED pureVars


(***************************************************************************)
(* Stream tap: extractor.js StreamTap                                      *)
(*                                                                         *)
(* Bytes.  "nl" is the newline, "sp" a space; "e" ":" spell the prefix     *)
(* `event:` and "d" ":" the prefix `data:` (two bytes each, so that a      *)
(* chunk boundary can fall inside a prefix).  "DONE" is the literal        *)
(* [DONE].  "hi" "lo" are the two bytes of one two-byte UTF-8 character    *)
(* "u"; chunk.toString('utf8') turns a "hi" that is not followed by "lo",  *)
(* and a "lo" that does not follow a "hi", into U+FFFD ("FFFD").           *)
(*                                                                         *)
(* JSON.  A payload is "{" kind? field* name* "}":                         *)
(*   kind  "S" "D" "P"    type message_start / message_delta / ping        *)
(*   field "i30" "i0" "iN5" "o60" "r20" "c5"   input_tokens (30, 0, -5) /  *)
(*         output_tokens / cache_read_input_tokens /                       *)
(*         cache_creation_input_tokens of the                              *)
(*         event's usage object (message.usage of a start, usage of a      *)
(*         delta)                                                          *)
(*   name  "a" "u" "FFFD" the characters of message.model (start) or of    *)
(*         delta.stop_reason (delta)                                       *)
(* Anything else does not parse (JSON.parse throws).  In an object of      *)
(* another kind or of no kind (the body of a buffered response) the        *)
(* fields are those of its own usage object and the name is its own model. *)
(***************************************************************************)
KindTokens  == {"S", "D", "P"}
FieldTokens == {"i30", "i0", "iN5", "o60", "r20", "c5"}
NameChars   == {"a", "u", "FFFD"}

TypeOf(k) == CASE k = "S" -> "message_start"
               [] k = "D" -> "message_delta"
               [] OTHER   -> "ping"

\* Buffer.toString('utf8') of one chunk
RECURSIVE toStringUtf8(_)
toStringUtf8(bytes) ==
  IF bytes = <<>> THEN <<>>
  ELSE IF bytes[1] = "hi"
       THEN IF Len(bytes) >= 2 /\ bytes[2] = "lo"
            THEN <<"u">> \o toStringUtf8(SubSeq(bytes, 3, Len(bytes)))
            ELSE <<"FFFD">> \o toStringUtf8(Tail(bytes))
       ELSE IF bytes[1] = "lo"
            THEN <<"FFFD">> \o toStringUtf8(Tail(bytes))
            ELSE <<bytes[1]>> \o toStringUtf8(Tail(bytes))

\* String.prototype.split('\n')
RECURSIVE split(_)
split(text) ==
  IF \E i \in 1..Len(text) : text[i] = "nl"
  THEN LET i == CHOOSE j \in 1..Len(text) :
                  text[j] = "nl" /\ \A k \in 1..(j - 1) : text[k] # "nl"
       IN <<SubSeq(text, 1, i - 1)>> \o split(SubSeq(text, i + 1, Len(text)))
  ELSE <<text>>

\* String.prototype.trim()
RECURSIVE trim(_)
trim(text) ==
  IF text = <<>> THEN <<>>
  ELSE IF text[1] = "sp" THEN trim(Tail(text))
  ELSE IF text[Len(text)] = "sp" THEN trim(SubSeq(text, 1, Len(text) - 1))
  ELSE text

\* String.prototype.startsWith
startsWith(text, prefix) ==
  Len(text) >= Len(prefix) /\ SubSeq(text, 1, Len(prefix)) = prefix

slice(text, n) == SubSeq(text, n + 1, Len(text))

\* JSON.parse: NULL when it throws, else the parsed object
\* [type, usage (the four counts, 0 when the key is missing), name].
FieldOf(inner, from, to, letter, value) ==
  IF \E x \in from..to : inner[x] = letter THEN value ELSE 0

JSONparse(text) ==
  IF ~(Len(text) >= 2 /\ text[1] = "{" /\ text[Len(text)] = "}") THEN NULL
  ELSE
    LET inner == SubSeq(text, 2, Len(text) - 1)
        n     == Len(inner)
        k     == IF n > 0 /\ inner[1] \in KindTokens THEN 1 ELSE 0
        fEnd  == CHOOSE j \in k..n :
                   /\ \A x \in (k + 1)..j : inner[x] \in FieldTokens
                   /\ (j < n => inner[j + 1] \notin FieldTokens)
    IN IF \E x \in (fEnd + 1)..n : inner[x] \notin NameChars THEN NULL
       ELSE Some([type |-> IF k = 1 THEN Some(TypeOf(inner[1])) ELSE NULL,
                  input_tokens  |-> IF \E x \in (k + 1)..fEnd : inner[x] = "iN5" THEN 0 - 5
                                    ELSE FieldOf(inner, k + 1, fEnd, "i30", 30),
                  output_tokens |-> FieldOf(inner, k + 1, fEnd, "o60", 60),
                  cache_read_input_tokens     |-> FieldOf(inner, k + 1, fEnd, "r20", 20),
                  cache_creation_input_tokens |-> FieldOf(inner, k + 1, fEnd, "c5", 5),
                  name |-> SubSeq(inner, fEnd + 1, n)])

\* extractor.js:71 emptyUsage / :122 the initial this._usage
emptyUsage ==
  [inputTokens |-> 0, outputTokens |-> 0, cacheRead |-> 0, cacheCreation |-> 0,
   stopReason |-> NULL, model |-> NULL]

\* _parseEvent with = in place of +=
parseEventAssign(usage, data) ==
  IF data.type = Some("message_start")
  THEN [usage EXCEPT
          !.inputTokens   = data.input_tokens,
          !.cacheRead     = data.cache_read_input_tokens,
          !.cacheCreation = data.cache_creation_input_tokens,
          !.model         = IF data.name # <<>> THEN Some(data.name) ELSE @]
  ELSE IF data.type = Some("message_delta")
  THEN [usage EXCEPT
          !.outputTokens = data.output_tokens,
          !.stopReason   = IF data.name # <<>> THEN Some(data.name) ELSE @]
  ELSE usage

\* extractor.js:198 _parseEvent(eventType, data) on the accumulated usage
parseEvent(usage, data) ==
  IF data.type = Some("message_start")
  THEN [usage EXCEPT
          !.inputTokens   = @ + data.input_tokens,
          !.cacheRead     = @ + data.cache_read_input_tokens,
          !.cacheCreation = @ + data.cache_creation_input_tokens,
          !.model         = IF data.name # <<>> THEN Some(data.name) ELSE @]
  ELSE IF data.type = Some("message_delta")
  THEN [usage EXCEPT
          !.outputTokens = @ + data.output_tokens,
          !.stopReason   = IF data.name # <<>> THEN Some(data.name) ELSE @]
  ELSE usage

\* extractor.js:146-157 / :169-178, the body of the loop over the lines
parseLine(usage, line) ==
  IF startsWith(line, <<"e", ":">>) THEN usage      \* currentEvent = ...
  ELSE IF startsWith(line, <<"d", ":">>)
  THEN LET dataStr == trim(slice(line, 2)) IN
       IF dataStr = <<"DONE">> THEN usage
       ELSE LET data == JSONparse(dataStr) IN
            IF data = NULL THEN usage ELSE parseEvent(usage, Val(data))
  ELSE usage

\* the loop without its try / catch: the first data line that does not
\* parse ends it
RECURSIVE parseLinesAborting(_, _)
parseLinesAborting(usage, lines) ==
  IF lines = <<>> THEN usage
  ELSE IF /\ startsWith(Head(lines), <<"d", ":">>)
          /\ trim(slice(Head(lines), 2)) # <<"DONE">>
          /\ JSONparse(trim(slice(Head(lines), 2))) = NULL
       THEN usage
       ELSE parseLinesAborting(parseLine(usage, Head(lines)), Tail(lines))

RECURSIVE parseLines(_, _)
parseLines(usage, lines) ==
  IF lines = <<>> THEN usage
  ELSE parseLines(parseLine(usage, Head(lines)), Tail(lines))

\* A tap is [buffer, usage, output, calls, error].
newTap == [buffer |-> <<>>, usage |-> emptyUsage, output |-> <<>>, calls |-> <<>>,
           error |-> NULL]

\* extractor.js:134, what the tap pushes for a chunk
pushedDecoded(chunk) == toStringUtf8(chunk)
pushed(chunk) == chunk

\* _transform that keeps the whole text in the buffer
transformKeepingLines(tap, chunk) ==
  LET text  == tap.buffer \o toStringUtf8(chunk)
      lines == split(text)
  IN [tap EXCEPT
        !.output = @ \o pushed(chunk),
        !.buffer = text,
        !.usage  = parseLines(@, SubSeq(lines, 1, Len(lines) - 1))]

\* extractor.js:132 _transform(chunk)
transform(tap, chunk) ==
  LET text  == tap.buffer \o toStringUtf8(chunk)
      lines == split(text)
  IN [tap EXCEPT
        !.output = @ \o pushed(chunk),
        !.buffer = lines[Len(lines)],
        !.usage  = parseLines(@, SubSeq(lines, 1, Len(lines) - 1))]

\* _flush without the parse of what is left in the buffer
flushUnparsed(tap) == [tap EXCEPT !.calls = @ \o <<tap.usage>>]

\* extractor.js:163 _flush
flushCallbackFirst(tap) ==
  LET usage == IF trim(tap.buffer) # <<>>
               THEN parseLines(tap.usage, split(tap.buffer))
               ELSE tap.usage
  IN [tap EXCEPT !.usage = usage, !.calls = @ \o <<tap.usage>>]
flush(tap) ==
  LET usage == IF trim(tap.buffer) # <<>>
               THEN parseLines(tap.usage, split(tap.buffer))
               ELSE tap.usage
  IN [tap EXCEPT !.usage = usage, !.calls = @ \o <<usage>>]

\* extractor.js:183-188 try { this._onUsage(this._usage) } catch: what
\* leaves _flush when the callback throws
callbackErrorUncaught(throws) == IF throws THEN Some("onUsage") ELSE NULL
callbackError(throws) == NULL

\* _flush with a callback that throws or not
flushWith(tap, throws) == [flush(tap) EXCEPT !.error = callbackError(throws)]

\* ---- the driver of SpecTap: a stream is written in any chunks, then ended
MaxLines == 2

L_event  == <<"e", ":", "sp", "a">>
L_start  == <<"d", ":", "sp", "{", "S", "i30", "a", "}">>
L_startU == <<"d", ":", "{", "S", "i30", "hi", "lo", "}">>
L_delta  == <<"d", ":", "sp", "{", "D", "o60", "a", "}">>
L_startC == <<"d", ":", "{", "S", "i30", "r20", "c5", "}">>
L_deltaR == <<"d", ":", "{", "D", "o60", "r20", "a", "a", "}">>
L_ping   == <<"d", ":", "{", "P", "}">>
L_bad    == <<"d", ":", "{", "S", "i30">>
L_done   == <<"d", ":", "sp", "DONE">>
L_blank  == <<>>
L_other  == <<"a", "sp">>

LineSet == {L_event, L_start, L_startU, L_startC, L_delta, L_deltaR, L_ping,
            L_bad, L_done, L_blank, L_other}

RECURSIVE Terminated(_)
Terminated(n) ==
  IF n = 0 THEN {<<>>}
  ELSE LET prev == Terminated(n - 1)
       IN prev \cup {l \o <<"nl">> \o s : l \in LineSet, s \in prev}

\* the stream of test/extractor.test.js:238
ExampleStream ==
  L_event \o <<"nl">> \o L_start \o <<"nl", "nl">> \o
  L_event \o <<"nl">> \o L_delta \o <<"nl", "nl">>

\* a stream with two start events, two delta events with different stop
\* reasons and an event of another kind between them
RepeatedStream ==
  L_start \o <<"nl">> \o L_startC \o <<"nl">> \o L_deltaR \o <<"nl">> \o
  L_ping \o <<"nl">> \o L_delta \o <<"nl">>

TapStreams ==
  Terminated(MaxLines)
    \cup {s \o l : s \in Terminated(MaxLines - 1), l \in LineSet \ {<<>>}}
    \cup {ExampleStream, RepeatedStream}

TapIdle ==
  /\ tapInput = <<>>
  /\ tapPos = 0
  /\ tapSplit = FALSE
  /\ tapText = <<>>
  /\ tapBuffer = <<>>
  /\ tapUsage = emptyUsage
  /\ tapOutput = <<>>
  /\ tapCalls = <<>>
  /\ tapEnded = FALSE
  /\ tapError = NULL

TapNow == [buffer |-> tapBuffer, usage |-> tapUsage, output |-> tapOutput,
           calls |-> tapCalls, error |-> tapError]

SetTap(tap) ==
  /\ tapBuffer' = tap.buffer
  /\ tapUsage' = tap.usage
  /\ tapOutput' = tap.output
  /\ tapCalls' = tap.calls
  /\ tapError' = tap.error

\* tap.write(chunk): the next n bytes of the stream arrive as one chunk
TapWrite(n) ==
  /\ ~tapEnded
  /\ tapPos + n <= Len(tapInput)
  /\ LET chunk == SubSeq(tapInput, tapPos + 1, tapPos + n) IN
       /\ SetTap(transform(TapNow, chunk))
       /\ tapSplit' = (tapSplit \/ (tapPos + n < Len(tapInput) /\ chunk[n] # "nl"))
       /\ tapText' = tapText \o toStringUtf8(chunk)
  /\ tapPos' = tapPos + n
  /\ UNCHANGED <<tapInput, tapEnded>>
  /\ UNCHANGED alertVars
  /\ UNCHANGED routerVars
  /\ UNCHANGED gatewayVars
  /\ UNCHANGED pureVars

\* tap.end(): the stream ends once every byte has been written
TapEnd ==
  /\ ~tapEnded
  /\ tapPos = Len(tapInput)
  /\ tapError = NULL
  /\ SetTap(flushWith(TapNow, "onUsage" \in faults))
  /\ tapEnded' = (flushWith(TapNow, "onUsage" \in faults).error = NULL)
  /\ UNCHANGED <<tapInput, tapPos, tapSplit, tapText>>
  /\ UNCHANGED alertVars
  /\ UNCHANGED routerVars
  /\ UNCHANGED gatewayVars
  /\ UNCHANGED pureVars


(***************************************************************************)
(* Adaptive Router: router.js                                              *)
(*                                                                         *)
(* A model name is a sequence of pieces of text, cut so that every prefix  *)
(* relation among the names used falls on a piece boundary; startsWith is  *)
(* then the prefix relation on sequences and the empty name is ''.         *)
(* A ladder is the sequence of its [key, target] entries in insertion      *)
(* order (the order of Object.entries).  A request body is a function from *)
(* its field names to their values.                                        *)
(***************************************************************************)
opus46      == <<"claude-opus-4", "-6">>
opus46dated == <<"claude-opus-4", "-6", "-20250215">>
opus4       == <<"claude-opus-4">>
sonnet46    == <<"claude-sonnet-4", "-6">>
sonnet45    == <<"claude-sonnet-4", "-5">>
sonnet4     == <<"claude-sonnet-4">>
haiku46     == <<"claude-haiku-4", "-6">>
claude3       == <<"claude-3">>
claude3opus   == <<"claude-3", "-opus">>
claude3sonnet == <<"claude-3", "-sonnet">>
claude3haiku  == <<"claude-3", "-haiku">>

\* router.js:15
DEFAULT_LADDER ==
  << <<opus46, sonnet46>>, <<sonnet46, haiku46>>, <<sonnet45, haiku46>>,
     <<opus4, sonnet46>>, <<sonnet4, haiku46>> >>

\* config.js:24, the ladder of the stored defaults
ConfigLadder == << <<opus46, sonnet46>>, <<sonnet46, haiku46>> >>

\* a configured ladder with a bare family key beside longer keys
Claude3Ladder ==
  << <<claude3, claude3haiku>>, <<claude3opus, claude3sonnet>> >>

DefaultThreshold == 80

Keys(ladder)    == {ladder[i][1] : i \in 1..Len(ladder)}
Targets(ladder) == {ladder[i][2] : i \in 1..Len(ladder)}

\* the names every object literal inherits from Object.prototype: a
\* property access with one of them yields a function (or, for __proto__,
\* the prototype), which is truthy
ObjectPrototype ==
  { <<"constructor">>, <<"toString">>, <<"valueOf">>, <<"hasOwnProperty">>,
    <<"__proto__">> }

\* table[key] of an object literal, NULL when undefined; `inherited` is
\* what the caller sees of an inherited member
Property(table, key, inherited) ==
  IF \E i \in 1..Len(table) : table[i][1] = key
  THEN Some(table[CHOOSE i \in 1..Len(table) : table[i][1] = key][2])
  ELSE IF key \in ObjectPrototype THEN Some(inherited)
  ELSE NULL

\* an inherited member where a model name is expected
ObjectMember == <<"function">>

\* router.js:138 findDowngrade(model, ladder): NULL or <<target>>
findDowngrade(model, ladder) ==
  IF model = <<>> THEN NULL
  ELSE IF Property(ladder, model, ObjectMember) # NULL
  THEN Property(ladder, model, ObjectMember)
  ELSE IF \E i \in 1..Len(ladder) : startsWith(model, ladder[i][1])
  THEN Some(ladder[CHOOSE i \in 1..Len(ladder) :
                     /\ startsWith(model, ladder[i][1])
                     /\ \A j \in 1..(i - 1) : ~startsWith(model, ladder[j][1])][2])
  ELSE NULL

\* router.js:56 shouldRoute(latestSnapshot, config)
NoRoute == [shouldRoute |-> FALSE, usedPercent |-> NULL, tokensRemaining |-> NULL]

shouldRouteStrict(latestSnapshot, cfg) ==
  IF ~cfg.routing.enabled THEN NoRoute
  ELSE IF latestSnapshot = NULL THEN NoRoute
  ELSE IF Val(latestSnapshot).tokens_remaining = NULL THEN NoRoute
  ELSE LET remaining   == Val(Val(latestSnapshot).tokens_remaining)
           usedPercent == UsedPercent(Or(cfg.routing.knownLimit, DefaultKnownLimit), remaining)
       IN [shouldRoute |-> usedPercent > Or(cfg.routing.threshold, DefaultThreshold),
           usedPercent |-> Some(usedPercent),
           tokensRemaining |-> Some(remaining)]
shouldRoute(latestSnapshot, cfg) ==
  IF ~cfg.routing.enabled THEN NoRoute
  ELSE IF latestSnapshot = NULL THEN NoRoute
  ELSE IF Val(latestSnapshot).tokens_remaining = NULL THEN NoRoute
  ELSE LET remaining   == Val(Val(latestSnapshot).tokens_remaining)
           knownLimit  == Or(cfg.routing.knownLimit, DefaultKnownLimit)
           usedPercent == UsedPercent(knownLimit, remaining)
           threshold   == Or(cfg.routing.threshold, DefaultThreshold)
       IN [shouldRoute |-> usedPercent >= threshold,
           usedPercent |-> Some(usedPercent),
           tokensRemaining |-> Some(remaining)]

\* requestBody.model, '' when the field is missing
ModelOf(body) == IF "model" \in DOMAIN body THEN body.model ELSE <<>>

\* { ...requestBody, model: targetModel }
WithModel(body, targetModel) ==
  [f \in DOMAIN body \cup {"model"} |-> IF f = "model" THEN targetModel ELSE body[f]]

\* router.js:95 maybeReroute(requestBody, latestSnapshot, config).
\* Result: the returned object (body, routedFrom, routedTo, usedPercent),
\* whether the returned body is the very object it was given (sameObject),
\* and the two argument objects as the call leaves them (bodyAfter,
\* snapshotAfter).
Returned(body, same, routedFrom, routedTo, usedPercent, bodyAfter, snapshotAfter) ==
  [body |-> body, sameObject |-> same, routedFrom |-> routedFrom,
   routedTo |-> routedTo, usedPercent |-> usedPercent,
   bodyAfter |-> bodyAfter, snapshotAfter |-> snapshotAfter]

\* router.js:118, already at the floor or no downgrade path
NoDowngradePath(targetModel, requestedModel) == targetModel = NULL
AtFloorOrNoPath(targetModel, requestedModel) ==
  targetModel = NULL \/ targetModel = Some(requestedModel)

LadderOf(cfg) ==
  IF cfg.routing.ladder = NULL THEN DEFAULT_LADDER ELSE Val(cfg.routing.ladder)

maybeRerouteInPlace(requestBody, latestSnapshot, cfg) ==
  IF requestBody = NULL
  THEN Returned(NULL, TRUE, NULL, NULL, NULL, requestBody, latestSnapshot)
  ELSE
    LET sr     == shouldRoute(latestSnapshot, cfg)
        body   == Val(requestBody)
        target == findDowngrade(ModelOf(body), LadderOf(cfg))
    IN IF ~sr.shouldRoute \/ ModelOf(body) = <<>> \/ target = NULL
          \/ target = Some(ModelOf(body))
       THEN Returned(requestBody, TRUE, NULL, NULL, sr.usedPercent,
                     requestBody, latestSnapshot)
       ELSE Returned(Some(WithModel(body, Val(target))), TRUE,
                     Some(ModelOf(body)), target, sr.usedPercent,
                     Some(WithModel(body, Val(target))), latestSnapshot)
maybeReroute(requestBody, latestSnapshot, cfg) ==
  IF requestBody = NULL
  THEN Returned(NULL, TRUE, NULL, NULL, NULL, requestBody, latestSnapshot)
  ELSE
    LET sr     == shouldRoute(latestSnapshot, cfg)
        body   == Val(requestBody)
        requestedModel == ModelOf(body)
        ladder == LadderOf(cfg)
        targetModel == findDowngrade(requestedModel, ladder)
    IN IF ~sr.shouldRoute
       THEN Returned(requestBody, TRUE, NULL, NULL, sr.usedPercent,
                     requestBody, latestSnapshot)
       ELSE IF requestedModel = <<>>
       THEN Returned(requestBody, TRUE, NULL, NULL, sr.usedPercent,
                     requestBody, latestSnapshot)
       ELSE IF AtFloorOrNoPath(targetModel, requestedModel)
       THEN Returned(requestBody, TRUE, NULL, NULL, sr.usedPercent,
                     requestBody, latestSnapshot)
       ELSE Returned(Some(WithModel(body, Val(targetModel))), FALSE,
                     Some(requestedModel), targetModel, sr.usedPercent,
                     requestBody, latestSnapshot)

\* ---- the driver of SpecRouter: the router is called on any arguments
RouterModels ==
  {opus46, opus46dated, opus4, sonnet46, sonnet45, haiku46,
   claude3opus, claude3sonnet, claude3haiku, <<"my-model">>, <<"constructor">>}

\* request bodies: with and without a model, with and without other fields
RouterBodies ==
  {NULL}
    \cup {Some([model |-> m]) : m \in RouterModels \cup {<<>>}}
    \cup {Some([model |-> m, max_tokens |-> 512, system |-> "You are helpful."]) :
            m \in RouterModels}
    \cup {Some([max_tokens |-> 512])}

\* latest Snapshot rows: none, tokens_remaining absent, 0 %, 79 %, 80 %,
\* 81 %, 100 %
RouterSnapshots ==
  {NULL}
    \cup {Some([tokens_remaining |-> r]) :
            r \in {NULL, Some(400000), Some(84000), Some(80000), Some(76000), Some(0)}}

RouterConfigs ==
  { [alerts  |-> [tokenWarningPercent |-> 0, tokenCriticalPercent |-> 0],
     routing |-> [enabled |-> e, threshold |-> t, knownLimit |-> k, ladder |-> l]] :
      e \in BOOLEAN, t \in {0, 80, 81}, k \in {0, 400000},
      l \in {NULL, Some(ConfigLadder), Some(Claude3Ladder)} }

RouterIdle ==
  /\ rtBody = NULL
  /\ rtSnapshot = NULL
  /\ rtArgs = [body |-> NULL, snapshot |-> NULL]
  /\ rtResult = NULL
  /\ rtShould = NULL

\* maybeReroute(body, snapshot, config)
MaybeRerouteCall ==
  /\ rtResult = NULL
  /\ LET res == maybeReroute(rtBody, rtSnapshot, config) IN
       /\ rtResult' = Some([body |-> res.body, sameObject |-> res.sameObject,
                            routedFrom |-> res.routedFrom, routedTo |-> res.routedTo,
                            usedPercent |-> res.usedPercent])
       /\ rtBody' = res.bodyAfter
       /\ rtSnapshot' = res.snapshotAfter
  /\ UNCHANGED <<rtArgs, rtShould, config>>
  /\ UNCHANGED <<firedAlerts, faults, crashed, emitted, lastEval, evals, tierCount>>
  /\ UNCHANGED tapVars
  /\ UNCHANGED gatewayVars
  /\ UNCHANGED pureVars

\* shouldRoute(snapshot, config)
ShouldRouteCall ==
  /\ rtShould = NULL
  /\ rtShould' = Some(shouldRoute(rtSnapshot, config))
  /\ UNCHANGED <<rtBody, rtSnapshot, rtArgs, rtResult, config>>
  /\ UNCHANGED <<firedAlerts, faults, crashed, emitted, lastEval, evals, tierCount>>
  /\ UNCHANGED tapVars
  /\ UNCHANGED gatewayVars
  /\ UNCHANGED pureVars

(***************************************************************************)
(* Interception Gateway: proxy.js createProxy                              *)
(*                                                                         *)
(* Requests are numbered; each has its own req and res objects and its     *)
(* own closure of the proxyRes handler.  The database, the dedup set and   *)
(* the config are shared.  Node runs one handler at a time, so every       *)
(* handler is one atomic action and the handlers of different requests     *)
(* interleave.                                                             *)
(*                                                                         *)
(* Headers are functions from header names to values.  The value of a      *)
(* numeric rate limit header is the text [sign, digits, rest] (parseInt    *)
(* reads the sign and the digits and ignores the rest), the value of       *)
(* content-type is a sequence of pieces of text, other values are strings. *)
(*                                                                         *)
(* The bytes of a request body are a sequence of tokens [k, v]: the        *)
(* punctuation "{" "}" "," and the whitespace "sp" (v empty), a member     *)
(* "key":value (k the key, v the value as pieces of text), or other text.  *)
(* The members of a body come in the order of KeyOrder, which is then the  *)
(* insertion order JSON.stringify follows.  Response bodies use the bytes  *)
(* of the stream tap section.                                              *)
(***************************************************************************)
NumReq == 2
Reqs == 1..NumReq

\* ---- header values
Get(h, name) == IF name \in DOMAIN h THEN Some(h[name]) ELSE NULL

NumText(n) == [sign |-> "", digits |-> Some(n), rest |-> ""]
JunkText   == [sign |-> "", digits |-> NULL, rest |-> "abc"]
EmptyText  == [sign |-> "", digits |-> NULL, rest |-> ""]

\* parseInt(val, 10): NULL for NaN
parseInt(text) ==
  IF text.digits = NULL THEN NULL
  ELSE IF text.sign = "-" THEN Some(0 - Val(text.digits))
  ELSE text.digits

\* extractor.js:87 parseIntOrNull(val)
parseIntOrNull(val) ==
  IF val = NULL THEN NULL
  ELSE IF Val(val) = EmptyText THEN NULL
  ELSE parseInt(Val(val))

\* h[name] || null for a string valued header
OrNull(val) == IF val = NULL \/ Val(val) = "" THEN NULL ELSE val

\* extractor.js:18 extractHeaders(headers), with the model proxy.js:68 adds
\* (ts, the time of the call, is left to the order of the stored rows)
extractHeaders(headers, requestedModel) ==
  [requestId             |-> OrNull(Get(headers, "request-id")),
   requestsRemaining     |-> parseIntOrNull(Get(headers, "anthropic-ratelimit-requests-remaining")),
   tokensRemaining       |-> parseIntOrNull(Get(headers, "anthropic-ratelimit-tokens-remaining")),
   inputTokensRemaining  |-> parseIntOrNull(Get(headers, "anthropic-ratelimit-input-tokens-remaining")),
   outputTokensRemaining |-> parseIntOrNull(Get(headers, "anthropic-ratelimit-output-tokens-remaining")),
   requestsReset         |-> OrNull(Get(headers, "anthropic-ratelimit-requests-reset")),
   tokensReset           |-> OrNull(Get(headers, "anthropic-ratelimit-tokens-reset")),
   model                 |-> requestedModel]

\* String.prototype.toLowerCase on the pieces of a content type
toLowerCase(text) ==
  [i \in 1..Len(text) |->
     IF text[i] = "Text/Event-Stream" THEN "text/event-stream" ELSE text[i]]

includes(text, piece) == \E i \in 1..Len(text) : text[i] = piece

\* extractor.js:98 isStreaming(headers)
isStreaming(headers) ==
  LET ct == toLowerCase(IF "content-type" \in DOMAIN headers
                        THEN headers["content-type"] ELSE <<>>)
  IN includes(ct, "text/event-stream")

\* proxy.js:332 hopByHop
hopByHop ==
  {"connection", "keep-alive", "proxy-authenticate", "proxy-authorization",
   "te", "trailers", "transfer-encoding", "upgrade"}

\* key.toLowerCase() of a header name
lowerName(key) == IF key = "Connection" THEN "connection" ELSE key

\* proxy.js:331 filterHeaders(headers)
filterHeadersAll(headers) == headers
filterHeaders(headers) ==
  [k \in {x \in DOMAIN headers : lowerName(x) \notin hopByHop} |-> headers[k]]

\* router.js:159 buildRoutingHeaders(originalModel, routedModel, usedPercent)
buildRoutingHeaders(originalModel, routedModel, usedPercent) ==
  ("x-sniff-routed" :> "true")
    @@ ("x-sniff-original-model" :> originalModel)
    @@ ("x-sniff-routed-model" :> routedModel)
    @@ ("x-sniff-reason" :> <<"token-threshold-", usedPercent>>)

\* Object.assign(outHeaders, routingHeaders)
assign(outHeaders, routingHeaders) ==
  IF routingHeaders = NULL THEN outHeaders
  ELSE Val(routingHeaders) @@ outHeaders

\* ---- request bodies
Tok(k)      == [k |-> k, v |-> <<>>]
Member(k, v) == [k |-> k, v |-> v]

KeyOrder == <<"model", "max_tokens">>
MemberKeys == {KeyOrder[i] : i \in 1..Len(KeyOrder)}

\* Buffer.concat(chunks)
RECURSIVE concat(_)
concat(chunks) ==
  IF chunks = <<>> THEN <<>> ELSE Head(chunks) \o concat(Tail(chunks))

\* buf.length: a member counts its key and each piece of its value
RECURSIVE length(_)
length(buf) ==
  IF buf = <<>> THEN 0 ELSE 1 + Len(Head(buf).v) + length(Tail(buf))

NotSp(tok) == tok.k # "sp"

\* JSON.parse of a request body: NULL when it throws, else <<object>>, the
\* object a function from its keys to their values (the last of equal keys)
JSONparseBody(text) ==
  LET t == SelectSeq(text, NotSp) IN
  IF ~(Len(t) >= 2 /\ t[1].k = "{" /\ t[Len(t)].k = "}") THEN NULL
  ELSE
    LET inner == SubSeq(t, 2, Len(t) - 1)
        n     == Len(inner)
    IN IF n = 0 THEN Some(<<>>)
       ELSE IF /\ n % 2 = 1
               /\ \A i \in 1..n : IF i % 2 = 1 THEN inner[i].k \in MemberKeys
                                             ELSE inner[i].k = ","
       THEN Some([key \in {inner[i].k : i \in {j \in 1..n : j % 2 = 1}} |->
                   inner[CHOOSE i \in 1..n :
                           /\ inner[i].k = key
                           /\ \A j \in (i + 1)..n : inner[j].k # key].v])
       ELSE NULL

\* JSON.stringify of a request body object
RECURSIVE members(_, _)
members(obj, keys) ==
  IF keys = <<>> THEN <<>>
  ELSE IF Head(keys) \in DOMAIN obj
  THEN LET rest == members(obj, Tail(keys)) IN
       <<Member(Head(keys), obj[Head(keys)])>>
         \o (IF rest = <<>> THEN <<>> ELSE <<Tok(",")>> \o rest)
  ELSE members(obj, Tail(keys))

JSONstringify(obj) == <<Tok("{")>> \o members(obj, KeyOrder) \o <<Tok("}")>>

\* proxy.js:179 / :217 bodyBuf, the bytes forwarded upstream
forwardedBodyReserialized(rawBody, rerouted, body) ==
  IF body # NULL THEN JSONstringify(Val(body)) ELSE rawBody
forwardedBody(rawBody, rerouted, body) ==
  IF rerouted THEN JSONstringify(Val(body)) ELSE rawBody

\* proxy.js:223 headers['content-length']
contentLengthReceived(bodyBuf, rawBody) == ToString(length(rawBody))
contentLength(bodyBuf, rawBody) == ToString(length(bodyBuf))

\* parsedBody?.model || 'unknown'
unknown == <<"unknown">>
ModelOrUnknown(parsedBody) ==
  IF parsedBody = NULL THEN unknown
  ELSE IF ModelOf(Val(parsedBody)) = <<>> THEN unknown
  ELSE ModelOf(Val(parsedBody))

\* ---- response bodies
\* extractor.js:56 parseUsageFromObject(data): the counts of a message_start
\* are under data.message.usage and the names of both event kinds under
\* data.message / data.delta, where this function does not look
parseUsageFromObject(data) ==
  LET top == data.type # Some("message_start")
      own == data.type \notin {Some("message_start"), Some("message_delta")}
  IN [inputTokens   |-> IF top THEN data.input_tokens ELSE 0,
      outputTokens  |-> IF top THEN data.output_tokens ELSE 0,
      cacheRead     |-> IF top THEN data.cache_read_input_tokens ELSE 0,
      cacheCreation |-> IF top THEN data.cache_creation_input_tokens ELSE 0,
      stopReason    |-> NULL,
      model         |-> IF own /\ data.name # <<>> THEN Some(data.name) ELSE NULL]

\* extractBody without its try / catch: what JSON.parse throws leaves it
extractBodyUncaught(rawBody) ==
  LET data == JSONparse(toStringUtf8(rawBody)) IN
  IF data = NULL THEN [thrown |-> "SyntaxError"] ELSE parseUsageFromObject(Val(data))

\* extractor.js:39 extractBody(rawBody)
extractBody(rawBody) ==
  LET data == JSONparse(toStringUtf8(rawBody)) IN
  IF data = NULL THEN emptyUsage ELSE parseUsageFromObject(Val(data))

\* ---- what a handler does, as it appears in the request's trace
GwEffect(op, name, type, data) == [op |-> op, name |-> name, type |-> type, data |-> data]

\* a lookup that keeps to the first row stored
getFirstSnapshot(rows) == IF rows = <<>> THEN NULL ELSE Some(rows[1])

\* db.js:225 getLatestSnapshot(): the last row stored, NULL without rows
getLatestSnapshot(rows) == IF rows = <<>> THEN NULL ELSE Some(rows[Len(rows)])

\* db.js:195 insertSnapshot(snapshot): the row stored
snapshotRow(snapshot) ==
  [model                   |-> snapshot.model,
   requests_remaining      |-> snapshot.requestsRemaining,
   tokens_remaining        |-> snapshot.tokensRemaining,
   input_tokens_remaining  |-> snapshot.inputTokensRemaining,
   output_tokens_remaining |-> snapshot.outputTokensRemaining,
   requests_reset          |-> snapshot.requestsReset,
   tokens_reset            |-> snapshot.tokensReset]

\* NaN, where a number n that may be NaN is Some(n)
NaN == <<>>
isNaN(x) == x = NaN

\* db.js:173 insertCall(call): the row stored
callRow(call) ==
  [request_id     |-> call.requestId,
   model          |-> call.model,
   input_tokens   |-> call.inputTokens,
   output_tokens  |-> call.outputTokens,
   cache_read     |-> call.cacheRead,
   cache_creation |-> call.cacheCreation,
   stream         |-> IF call.stream THEN 1 ELSE 0,
   stop_reason    |-> call.stopReason,
   routed_from    |-> call.routedFrom,
   cost_usd       |-> IF isNaN(call.costUsd) THEN 0 ELSE Val(call.costUsd),
   error_code     |-> call.errorCode]

\* ---- pricing.js.  Rates are in cents per million tokens, so that 0.80 is
\* 80 and 0.25 is 25; a cost is in units of 10^-10 USD, so that the cache
\* factors 0.1 and 1.25 stay whole numbers.  Floating point rounding is not
\* part of the model.

Rate(input, output) == [input |-> Some(input), output |-> Some(output)]

\* pricing.js:11 PRICING, in the order of its keys
PRICING ==
  << <<opus46, Rate(1500, 7500)>>,
     <<opus4, Rate(1500, 7500)>>,
     <<sonnet46, Rate(300, 1500)>>,
     <<sonnet45, Rate(300, 1500)>>,
     <<sonnet4, Rate(300, 1500)>>,
     <<haiku46, Rate(80, 400)>>,
     << <<"claude-haiku-4", "-5">>, Rate(80, 400)>>,
     << <<"claude-haiku-4">>, Rate(80, 400)>>,
     << <<"claude-3", "-5-sonnet", "-20241022">>, Rate(300, 1500)>>,
     << <<"claude-3", "-5-haiku", "-20241022">>, Rate(80, 400)>>,
     << <<"claude-3", "-5-sonnet", "-20240620">>, Rate(300, 1500)>>,
     << <<"claude-3", "-opus", "-20240229">>, Rate(1500, 7500)>>,
     << <<"claude-3", "-sonnet", "-20240229">>, Rate(300, 1500)>>,
     << <<"claude-3", "-haiku", "-20240307">>, Rate(25, 125)>> >>

\* what .input and .output of an inherited member are: undefined
NoRates == [input |-> NULL, output |-> NULL]

\* model.toLowerCase().includes(word) for the family words
LowerWords(piece) ==
  CASE piece \in {"claude-opus-4", "-opus", "opus", "OPUS"} -> {"opus"}
    [] piece \in {"claude-sonnet-4", "-sonnet", "-5-sonnet", "sonnet"} -> {"sonnet"}
    [] piece \in {"claude-haiku-4", "-haiku", "-5-haiku", "haiku", "Haiku"} -> {"haiku"}
    [] OTHER -> {}
lowerIncludes(model, word) == \E i \in 1..Len(model) : word \in LowerWords(model[i])

\* pricing.js:44 getPricing(model)
getPricing(model) ==
  IF model = NULL \/ Val(model) = <<>> THEN Val(Property(PRICING, sonnet46, NoRates))
  ELSE IF Property(PRICING, Val(model), NoRates) # NULL THEN Val(Property(PRICING, Val(model), NoRates))
  ELSE IF \E i \in 1..Len(PRICING) :
            startsWith(Val(model), PRICING[i][1]) \/ startsWith(PRICING[i][1], Val(model))
  THEN PRICING[CHOOSE i \in 1..Len(PRICING) :
                 /\ startsWith(Val(model), PRICING[i][1])
                      \/ startsWith(PRICING[i][1], Val(model))
                 /\ \A j \in 1..(i - 1) :
                      /\ ~startsWith(Val(model), PRICING[j][1])
                      /\ ~startsWith(PRICING[j][1], Val(model))][2]
  ELSE IF lowerIncludes(Val(model), "opus") THEN Val(Property(PRICING, opus46, NoRates))
  ELSE IF lowerIncludes(Val(model), "haiku") THEN Val(Property(PRICING, haiku46, NoRates))
  ELSE IF lowerIncludes(Val(model), "sonnet") THEN Val(Property(PRICING, sonnet46, NoRates))
  ELSE Val(Property(PRICING, sonnet46, NoRates))

\* pricing.js:77 estimateCost(model, inputTokens, outputTokens,
\* cacheReadTokens, cacheCreationTokens)
estimateCost(model, inputTokens, outputTokens, cacheReadTokens, cacheCreationTokens) ==
  LET pricing == getPricing(model) IN
    IF pricing.input = NULL \/ pricing.output = NULL THEN NaN
    ELSE Some(100 * inputTokens * Val(pricing.input)
                + 100 * outputTokens * Val(pricing.output)
                + 10 * cacheReadTokens * Val(pricing.input)
                + 125 * cacheCreationTokens * Val(pricing.input))

\* the cost at the rates of the model first asked for
costAtOriginal(h, usage) ==
  estimateCost(IF h.routedFrom # NULL THEN h.routedFrom ELSE Some(h.requestedModel),
               usage.inputTokens, usage.outputTokens,
               usage.cacheRead, usage.cacheCreation)

\* proxy.js:106 / :141 the cost of a call, at the rates of `requestedModel`
costAtRequested(h, usage) ==
  estimateCost(Some(h.requestedModel), usage.inputTokens, usage.outputTokens,
               usage.cacheRead, usage.cacheCreation)

\* proxy.js:114 / :149 the Call record of a request (its times are not part
\* of this record)
callRecord(h, usage, stream) ==
  [requestId     |-> h.requestId,
   model         |-> h.requestedModel,
   inputTokens   |-> usage.inputTokens,
   outputTokens  |-> usage.outputTokens,
   cacheRead     |-> usage.cacheRead,
   cacheCreation |-> usage.cacheCreation,
   stream        |-> stream,
   stopReason    |-> usage.stopReason,
   routedFrom    |-> h.routedFrom,
   costUsd       |-> costAtRequested(h, usage),
   errorCode     |-> h.errorCode]

\* proxy.js:239 persistAndEmit(db, emitter, callRecord, ...), called from
\* the completion callback `via` ("tap" or "end")
persistAndEmit(call, via) ==
  Try(GwEffect("insertCall", "", via, call)) \o Bare(GwEffect("emit", "call", "call", call))

\* the effects of a kind that reached storage: those whose call did not fail
Stored(effects, op) == SelectSeq(effects, LAMBDA e : e.op = op /\ ~Fails(e))

\* the collaborators of the gateway that can fail: storage, the push
\* notifier and the listeners of the four events
GatewayFaults ==
  {"getLatestSnapshot", "insertSnapshot", "insertCall", "insertAlert", "notifyAll",
   "snapshot", "call", "alert", "reset"}

\* proxy.js:102-167: the completion callbacks the handler installs
persistPathsBoth(streamFlag) == IF streamFlag THEN {"tap", "end"} ELSE {"end"}
persistPaths(streamFlag) == IF streamFlag THEN {"tap"} ELSE {"end"}

\* proxy.js:66-86: Snapshot processing, then the response head
headFirst(snapshotEffects, headEffects) == headEffects \o snapshotEffects
snapshotThenHead(snapshotEffects, headEffects) == snapshotEffects \o headEffects

\* proxy.js:71 the guard of the Snapshot processing
hasTokenDataAlways(snapshot) == TRUE
hasTokenData(snapshot) == snapshot.tokensRemaining # NULL

\* proxy.js:60 the req the proxyRes handler is called with: the request the
\* response answers, whichever request arrived last (reqOfLatest is the
\* request a variable shared by the handlers would hold)
reqOfLatest(r) == CHOOSE q \in Reqs : pc[q] # "idle" /\ \A p \in Reqs : p > q => pc[p] = "idle"
reqOf(r) == r

\* proxy.js:91 the guard of the rate_limit_hit alert; _firedAlerts is not
\* consulted
rateLimitHitOnce(errorCode, fired) == errorCode = Some("429") /\ fired = {}
rateLimitHit(errorCode, fired) == errorCode = Some("429")

\* proxy.js:89 errorCode
errorCodeOf(statusCode) == IF statusCode >= 400 THEN Some(ToString(statusCode)) ELSE NULL

\* a req without the _tg fields, a res nothing was written to
NoTg   == [model |-> NULL, routedFrom |-> NULL, routingHeaders |-> NULL]
NoRes  == [statusCode |-> NULL, headers |-> NULL, body |-> <<>>, ended |-> FALSE,
           closed |-> FALSE]

GatewayIdle ==
  /\ pc = [r \in Reqs |-> "idle"]
  /\ reqBody = [r \in Reqs |-> <<>>]
  /\ reqChunks = [r \in Reqs |-> <<>>]
  /\ tg = [r \in Reqs |-> NoTg]
  /\ forwarded = [r \in Reqs |-> NULL]
  /\ proxyRes = [r \in Reqs |-> NULL]
  /\ resGot = [r \in Reqs |-> 0]
  /\ handler = [r \in Reqs |-> NULL]
  /\ clientRes = [r \in Reqs |-> NoRes]
  /\ trace = [r \in Reqs |-> <<>>]
  /\ dbSnapshots = <<>>
  /\ dbCalls = <<>>

\* the parts of the state the gateway never touches
GatewayFrame ==
  /\ UNCHANGED <<config, faults, emitted, lastEval, evals, tierCount>>
  /\ UNCHANGED tapVars
  /\ UNCHANGED routerVars
  /\ UNCHANGED pureVars

\* proxy.js:171 a request arrives; requests are numbered in arrival order
HttpRequest(r, body) ==
  /\ ~crashed
  /\ pc[r] = "idle"
  /\ \A q \in Reqs : q < r => pc[q] # "idle"
  /\ pc' = [pc EXCEPT ![r] = "receiving"]
  /\ reqBody' = [reqBody EXCEPT ![r] = body]
  /\ UNCHANGED <<reqChunks, tg, forwarded, proxyRes, resGot, handler, clientRes, trace,
                 dbSnapshots, dbCalls, firedAlerts, crashed>>
  /\ GatewayFrame

\* proxy.js:176 req.on('data')
ReqData(r) ==
  /\ ~crashed
  /\ pc[r] = "receiving"
  /\ Len(reqChunks[r]) < Len(reqBody[r])
  /\ reqChunks' = [reqChunks EXCEPT ![r] = Append(@, reqBody[r][Len(@) + 1])]
  /\ UNCHANGED <<pc, reqBody, tg, forwarded, proxyRes, resGot, handler, clientRes, trace,
                 dbSnapshots, dbCalls, firedAlerts, crashed>>
  /\ GatewayFrame

\* proxy.js:177 req.on('end'): parse, route, forward
ReqEnd(r) ==
  /\ ~crashed
  /\ pc[r] = "receiving"
  /\ Len(reqChunks[r]) = Len(reqBody[r])
  /\ LET rawBody    == concat(reqChunks[r])
         parsedBody == IF length(rawBody) > 0 THEN JSONparseBody(rawBody) ELSE NULL
         routing    == parsedBody # NULL /\ config.routing.enabled
         lookup     == IF routing
                       THEN Bare(GwEffect("getLatestSnapshot", "", "",
                                          getLatestSnapshot(dbSnapshots)))
                       ELSE <<>>
         rr         == maybeReroute(parsedBody, getLatestSnapshot(dbSnapshots), config)
         rerouted   == /\ routing
                       /\ ~Interrupted(lookup)
                       /\ rr.routedFrom # NULL
                       /\ rr.routedTo # NULL
         downgrade  == IF rerouted
                       THEN Bare(GwEffect("emit", "alert", "route_downgrade",
                                          [fromModel |-> Val(rr.routedFrom),
                                           toModel |-> Val(rr.routedTo),
                                           usedPercent |-> Val(rr.usedPercent)]))
                       ELSE <<>>
         effects    == lookup \o downgrade
         thrown     == Interrupted(effects)
         bodyBuf    == forwardedBody(rawBody, rerouted, rr.body)
     IN
       /\ tg' = [tg EXCEPT ![r] =
                   IF rerouted
                   THEN [model |-> rr.routedTo, routedFrom |-> rr.routedFrom,
                         routingHeaders |->
                           Some(buildRoutingHeaders(Val(rr.routedFrom), Val(rr.routedTo),
                                                    Val(rr.usedPercent)))]
                   ELSE [model |-> Some(ModelOrUnknown(parsedBody)), routedFrom |-> NULL,
                         routingHeaders |-> NULL]]
       /\ trace' = [trace EXCEPT ![r] = @ \o Cut(effects)]
       /\ forwarded' = [forwarded EXCEPT ![r] =
                          IF thrown THEN @
                          ELSE Some([body |-> bodyBuf,
                                     contentLength |-> contentLength(bodyBuf, rawBody)])]
       /\ pc' = [pc EXCEPT ![r] = IF thrown THEN "broken" ELSE "forwarded"]
       /\ crashed' = thrown
  /\ UNCHANGED <<reqBody, reqChunks, proxyRes, resGot, handler, clientRes,
                 dbSnapshots, dbCalls, firedAlerts>>
  /\ GatewayFrame

\* proxy.js:47 the status of a gateway error
BadGateway == 502

\* proxy.js:49 JSON.stringify({ error: 'proxy_error', message: err.message })
errorBodyEmpty(message) == <<>>
errorBody(message) == <<"{", "error", ":", "proxy_error", "message", ":", message, "}">>

\* the messages of the errors the proxy library reports
ErrorMessages == {"ECONNREFUSED"}

\* proxy.js:44 proxy.on('error'): the upstream fails before its response
ProxyError(r, message) ==
  /\ ~crashed
  /\ pc[r] = "forwarded"
  /\ LET headersSent == clientRes[r].headers # NULL
         head == ("Content-Type" :> <<"application/json">>)
     IN
       /\ clientRes' = [clientRes EXCEPT ![r] =
                    [statusCode |-> IF headersSent THEN @.statusCode ELSE Some(BadGateway),
                     headers |-> IF headersSent THEN @.headers ELSE Some(head),
                     body |-> @.body \o errorBody(message),
                     ended |-> TRUE,
                     closed |-> @.closed]]
       /\ trace' = [trace EXCEPT ![r] =
                      IF headersSent THEN @
                      ELSE @ \o << GwEffect("writeHead", "", "",
                                            [statusCode |-> BadGateway, headers |-> head]) >>]
  /\ pc' = [pc EXCEPT ![r] = "failed"]
  /\ UNCHANGED <<reqBody, reqChunks, tg, forwarded, proxyRes, resGot, handler,
                 dbSnapshots, dbCalls, firedAlerts, crashed>>
  /\ GatewayFrame

\* proxy.js:60 proxy.on('proxyRes'): the upstream's response head arrives
ProxyRes(r, response) ==
  /\ ~crashed
  /\ pc[r] = "forwarded"
  /\ LET req            == tg[reqOf(r)]
         requestedModel == IF req.model = NULL THEN unknown ELSE Val(req.model)
         routedFrom     == req.routedFrom
         streamFlag     == isStreaming(response.headers)
         snapshot       == extractHeaders(response.headers, requestedModel)
         hasTokens      == hasTokenData(snapshot)
         stored         == IF hasTokens
                           THEN Try(GwEffect("insertSnapshot", "", "", snapshot))
                                  \o Bare(GwEffect("emit", "snapshot", "snapshot", snapshot))
                           ELSE <<>>
         evaluated      == hasTokens /\ ~Interrupted(stored)
         alerts         == checkAlerts(snapshot, config, firedAlerts)
         snapshotEffects ==
           IF evaluated
           THEN stored \o << GwEffect("checkAlerts", "", "", snapshot) >> \o alerts.effects
           ELSE stored
         outHeaders == assign(filterHeaders(response.headers), req.routingHeaders)
         headEffects ==
           << GwEffect("writeHead", "", "",
                       [statusCode |-> response.statusCode, headers |-> outHeaders]) >>
         errorCode == errorCodeOf(response.statusCode)
         resetAt == IF snapshot.tokensReset # NULL THEN Val(snapshot.tokensReset)
                    ELSE IF snapshot.requestsReset # NULL THEN Val(snapshot.requestsReset)
                    ELSE "unknown"
         rateLimitEffects ==
           IF rateLimitHit(errorCode, IF evaluated THEN alerts.fired ELSE firedAlerts)
           THEN Bare(GwEffect("emit", "alert", "rate_limit_hit", [resetAt |-> resetAt]))
           ELSE <<>>
         effects == Cut(snapshotThenHead(snapshotEffects, headEffects) \o rateLimitEffects)
         thrown  == Interrupted(effects)
         headWritten == \E i \in 1..Len(effects) : effects[i].op = "writeHead"
     IN
       /\ dbSnapshots' = dbSnapshots \o
            [i \in 1..Len(Stored(effects, "insertSnapshot")) |->
               snapshotRow(Stored(effects, "insertSnapshot")[i].data)]
       /\ firedAlerts' = IF evaluated THEN alerts.fired ELSE firedAlerts
       /\ clientRes' = [clientRes EXCEPT ![r] =
                    IF headWritten
                    THEN [@ EXCEPT !.statusCode = Some(response.statusCode),
                                   !.headers = Some(outHeaders)]
                    ELSE @]
       /\ trace' = [trace EXCEPT ![r] = @ \o effects]
       /\ handler' = [handler EXCEPT ![r] =
                        IF thrown THEN @
                        ELSE Some([requestedModel |-> requestedModel,
                                   routedFrom     |-> routedFrom,
                                   streamFlag     |-> streamFlag,
                                   requestId      |-> snapshot.requestId,
                                   errorCode      |-> errorCode,
                                   paths          |-> persistPaths(streamFlag),
                                   tap            |-> newTap,
                                   chunks         |-> <<>>])]
       /\ pc' = [pc EXCEPT ![r] = IF thrown THEN "broken" ELSE "responding"]
       /\ crashed' = thrown
  /\ proxyRes' = [proxyRes EXCEPT ![r] = Some(response)]
  /\ UNCHANGED <<reqBody, reqChunks, tg, forwarded, resGot, dbCalls>>
  /\ GatewayFrame

\* proxyRes 'data': the next chunk of the upstream body.  On the streaming
\* path it goes through the tap to the client (proxy.js:131), on the
\* buffered path into chunks (proxy.js:136) and to the client (proxy.js:166)
ProxyResData(r) ==
  /\ ~crashed
  /\ pc[r] = "responding"
  /\ resGot[r] < Len(Val(proxyRes[r]).chunks)
  /\ LET h     == Val(handler[r])
         chunk == Val(proxyRes[r]).chunks[resGot[r] + 1]
         tap   == IF "tap" \in h.paths THEN transform(h.tap, chunk) ELSE h.tap
         out   == IF h.streamFlag
                  THEN SubSeq(tap.output, Len(h.tap.output) + 1, Len(tap.output))
                  ELSE chunk
     IN
       /\ handler' = [handler EXCEPT ![r] =
                        Some([h EXCEPT !.tap = tap,
                                       !.chunks = IF "end" \in h.paths
                                                  THEN Append(@, chunk) ELSE @])]
       /\ clientRes' = [clientRes EXCEPT ![r] =
                          [@ EXCEPT !.body = IF clientRes[r].closed THEN @ ELSE @ \o out]]
  /\ resGot' = [resGot EXCEPT ![r] = @ + 1]
  /\ UNCHANGED <<pc, reqBody, reqChunks, tg, forwarded, proxyRes, trace,
                 dbSnapshots, dbCalls, firedAlerts, crashed>>
  /\ GatewayFrame

\* proxyRes 'end': the tap is flushed and calls back (proxy.js:104), or the
\* 'end' listener of the buffered path runs (proxy.js:137); res ends
ProxyResEnd(r) ==
  /\ ~crashed
  /\ pc[r] = "responding"
  /\ resGot[r] = Len(Val(proxyRes[r]).chunks)
  /\ LET h   == Val(handler[r])
         tap == IF "tap" \in h.paths THEN flush(h.tap) ELSE h.tap
         viaTap == IF "tap" \in h.paths
                   THEN Swallowed(Cut(persistAndEmit(
                          callRecord(h, tap.calls[Len(tap.calls)], TRUE), "tap")))
                   ELSE <<>>
         viaEnd == IF "end" \in h.paths
                   THEN Cut(persistAndEmit(
                          callRecord(h, extractBody(concat(h.chunks)), FALSE), "end"))
                   ELSE <<>>
         effects == viaTap \o viaEnd
         thrown  == Interrupted(effects)
     IN
       /\ handler' = [handler EXCEPT ![r] = Some([h EXCEPT !.tap = tap])]
       /\ trace' = [trace EXCEPT ![r] = @ \o effects]
       /\ dbCalls' = dbCalls \o
            [i \in 1..Len(Stored(effects, "insertCall")) |->
               callRow(Stored(effects, "insertCall")[i].data)]
       /\ clientRes' = [clientRes EXCEPT ![r] =
                          [@ EXCEPT !.ended = ~thrown /\ ~clientRes[r].closed]]
       /\ pc' = [pc EXCEPT ![r] = IF thrown THEN "broken" ELSE "done"]
       /\ crashed' = thrown
  /\ UNCHANGED <<reqBody, reqChunks, tg, forwarded, proxyRes, resGot,
                 dbSnapshots, firedAlerts>>
  /\ GatewayFrame

\* The client of an event stream goes away after a part of the stream was
\* forwarded to it.  No code of proxy.js listens for it (there is no
\* 'close' or 'aborted' listener in proxy.js:60-168): the pipe of
\* proxy.js:131 stops writing to res, and the upstream response either goes
\* on to its 'end' or is aborted with the request and never emits 'end'.
ClientClose(r, upstream) ==
  /\ ~crashed
  /\ pc[r] = "responding"
  /\ Val(handler[r]).streamFlag
  /\ resGot[r] >= 1
  /\ ~clientRes[r].closed
  /\ clientRes' = [clientRes EXCEPT ![r] = [@ EXCEPT !.closed = TRUE]]
  /\ pc' = [pc EXCEPT ![r] = upstream]
  /\ UNCHANGED <<reqBody, reqChunks, tg, forwarded, proxyRes, resGot, handler, trace,
                 dbSnapshots, dbCalls, firedAlerts, crashed>>
  /\ GatewayFrame

\* ---- the driver of Spec: clients send requests, the upstream answers
\* config.js:20 the defaults, and the same with routing enabled
GatewayConfigs ==
  { [alerts  |-> [tokenWarningPercent |-> 80, tokenCriticalPercent |-> 95],
     routing |-> [enabled |-> e, threshold |-> 80, knownLimit |-> 0,
                  ladder |-> Some(ConfigLadder)]] : e \in BOOLEAN }

\* request bodies, as the chunks they arrive in: none, text that is not
\* JSON, an opus request with whitespace in two chunks, a dated opus model,
\* a haiku request, a body without a model
Q_none    == <<>>
Q_text    == << <<Tok("hello")>> >>
Q_opus    == << <<Tok("{"), Tok("sp"), Member("model", opus46)>>,
                <<Tok(","), Member("max_tokens", <<"512">>), Tok("}")>> >>
Q_dated   == << <<Tok("{"), Member("model", opus46dated), Tok("}")>> >>
Q_haiku   == << <<Tok("{"), Member("model", haiku46), Tok("}")>> >>
Q_nomodel == << <<Tok("{"), Member("max_tokens", <<"512">>), Tok("}")>> >>

GatewayRequests == {Q_none, Q_text, Q_opus, Q_dated, Q_haiku, Q_nomodel}

\* upstream responses: a JSON message at 79 % used, an event stream at 96 %
\* in two chunks cut inside a line, an event stream without rate limit
\* headers, a 429 at 100 %, a 500 with an unparseable header and body, an
\* empty JSON response at 0 %
P_json79 ==
  [statusCode |-> 200,
   headers |-> ("content-type" :> <<"application/json">>)
                 @@ ("anthropic-ratelimit-tokens-remaining" :> NumText(84000))
                 @@ ("request-id" :> "req_a")
                 @@ ("connection" :> "keep-alive"),
   chunks |-> << <<"{", "i30", "o60", "a", "}">> >>]
P_sse96 ==
  [statusCode |-> 200,
   headers |-> ("content-type" :> <<"text/event-stream", "; charset=utf-8">>)
                 @@ ("anthropic-ratelimit-tokens-remaining" :> NumText(16000))
                 @@ ("request-id" :> "req_b")
                 @@ ("transfer-encoding" :> "chunked"),
   chunks |-> << L_event \o <<"nl">> \o SubSeq(L_start, 1, 4),
                 SubSeq(L_start, 5, Len(L_start)) \o <<"nl", "nl">>
                   \o L_event \o <<"nl">> \o L_delta \o <<"nl", "nl">> >>]
P_sseBare ==
  [statusCode |-> 200,
   headers |-> ("content-type" :> <<"Text/Event-Stream">>),
   chunks |-> << L_start \o <<"nl">> \o L_delta >>]
P_429 ==
  [statusCode |-> 429,
   headers |-> ("content-type" :> <<"application/json">>)
                 @@ ("anthropic-ratelimit-tokens-remaining" :> NumText(0))
                 @@ ("anthropic-ratelimit-tokens-reset" :> "2026-01-01T00:00:00Z"),
   chunks |-> << <<"{", "}">> >>]
P_500 ==
  [statusCode |-> 500,
   headers |-> ("anthropic-ratelimit-tokens-remaining" :> JunkText),
   chunks |-> << <<"a">>, <<"sp">> >>]
P_empty0 ==
  [statusCode |-> 200,
   headers |-> ("content-type" :> <<"application/json">>)
                 @@ ("anthropic-ratelimit-tokens-remaining" :> NumText(400000)),
   chunks |-> <<>>]

GatewayResponses == {P_json79, P_sse96, P_sseBare, P_429, P_500, P_empty0}

(***************************************************************************)
(* Exported functions called on their own                                  *)
(***************************************************************************)
\* router.js:30 computeUsagePercent(latestSnapshot)
computeUsagePercent(latestSnapshot) ==
  IF latestSnapshot = NULL THEN NULL
  ELSE IF Val(latestSnapshot).tokens_remaining = NULL THEN NULL
  ELSE Val(latestSnapshot).tokens_remaining

NoCall == [fn |-> "", args |-> <<>>]

PureIdle ==
  /\ pureCall = NoCall
  /\ pureResult = NULL

\* the parts of the state a function call leaves alone
PureFrame ==
  /\ UNCHANGED pureCall
  /\ UNCHANGED alertVars
  /\ UNCHANGED tapVars
  /\ UNCHANGED routerVars
  /\ UNCHANGED gatewayVars

Called(fn) == pureCall.fn = fn /\ pureResult = NULL

ComputeUsagePercentCall ==
  /\ Called("computeUsagePercent")
  /\ pureResult' = Some(computeUsagePercent(pureCall.args[1]))
  /\ PureFrame

\* extractor.js:18 extractHeaders(headers) on its own: `headers || {}`
ExtractHeadersCall ==
  /\ Called("extractHeaders")
  /\ LET headers == pureCall.args[1]
         h == IF headers = NULL THEN [n \in {} |-> EmptyText] ELSE Val(headers)
     IN pureResult' = Some(extractHeaders(h, unknown))
  /\ PureFrame

\* extractor.js:39 extractBody(rawBody) on its own
ExtractBodyCall ==
  /\ Called("extractBody")
  /\ pureResult' = Some(extractBody(pureCall.args[1]))
  /\ PureFrame

\* pricing.js:44 getPricing(model) on its own
GetPricingCall ==
  /\ Called("getPricing")
  /\ pureResult' = Some(getPricing(pureCall.args[1]))
  /\ PureFrame

\* pricing.js:77 estimateCost(model, inputTokens, outputTokens,
\* cacheReadTokens, cacheCreationTokens) on its own
EstimateCostCall ==
  /\ Called("estimateCost")
  /\ pureResult' = Some(estimateCost(pureCall.args[1], pureCall.args[2], pureCall.args[3],
                                     pureCall.args[4], pureCall.args[5]))
  /\ PureFrame

\* ---- the driver of SpecPure: one call of one function on any arguments
\* header texts: "", "abc", "0", "16000", "-5", "12abc"
NegativeText == [sign |-> "-", digits |-> Some(5), rest |-> ""]
SuffixedText == [sign |-> "", digits |-> Some(12), rest |-> "abc"]
HeaderTexts ==
  {EmptyText, JunkText, NumText(0), NumText(16000), NegativeText, SuffixedText}

\* header objects with any of the four rate limit counts, each absent or
\* one of the texts
RemainingNames ==
  << "anthropic-ratelimit-requests-remaining", "anthropic-ratelimit-tokens-remaining",
     "anthropic-ratelimit-input-tokens-remaining",
     "anthropic-ratelimit-output-tokens-remaining" >>
HeaderObjects ==
  { [n \in {RemainingNames[i] : i \in {j \in 1..4 : v[j] # NULL}} |->
       Val(v[CHOOSE i \in 1..4 : RemainingNames[i] = n])] :
      v \in [1..4 -> {NULL} \cup {Some(t) : t \in HeaderTexts}] }

\* bodies: an object of no kind or of one of the event kinds with any of the
\* four counts and a model of no, one or two characters (one of them cut in
\* the middle of its bytes), and the same without its opening or closing
\* brace, with a stray byte, or empty
BodyMembers ==
  { k \o i \o o \o r \o c \o n :
      k \in {<<>>, <<"S">>, <<"P">>},
      i \in {<<>>, <<"i30">>, <<"iN5">>}, o \in {<<>>, <<"o60">>},
      r \in {<<>>, <<"r20">>}, c \in {<<>>, <<"c5">>},
      n \in {<<>>, <<"a">>, <<"hi", "lo">>, <<"a", "hi">>} }
BodyTexts ==
  {<<"{">> \o m \o <<"}">> : m \in BodyMembers}
    \cup {<<"{">> \o m : m \in BodyMembers}
    \cup {m \o <<"}">> : m \in BodyMembers}
    \cup {<<"{">> \o m \o <<"sp", "}">> : m \in BodyMembers}
    \cup {<<"{", "a">> \o m \o <<"}">> : m \in BodyMembers \ {<<>>}}

\* model names: the keys of the pricing table, dated and shortened names,
\* names with a family word in any case, names without one, the empty
\* name, and names that every object inherits a property for
PricingNames ==
  {PRICING[i][1] : i \in 1..Len(PRICING)}
    \cup {opus46dated, claude3, claude3opus, claude3sonnet, claude3haiku,
          <<"claude-3", "-5-sonnet">>, unknown, <<"gpt-4">>, <<>>,
          <<"my-", "OPUS", "-model">>, <<"x-", "Haiku">>, <<"new-", "sonnet", "-9">>,
          <<"haiku", "-or-", "sonnet">>}
    \cup ObjectPrototype

\* token counts of a call, and the models the costs are asked for: models
\* of the three rate classes, a dated name, an unknown one, none, and the
\* name of an inherited property
TokenCounts == {0, 1000, 2000}
CostModels ==
  {NULL, Some(opus46dated), Some(sonnet46), Some(<<"claude-3", "-haiku", "-20240307">>),
   Some(unknown), Some(<<"constructor">>)}

PureCalls ==
  << {[fn |-> "computeUsagePercent", args |-> <<s>>] : s \in RouterSnapshots},
     {[fn |-> "estimateCost", args |-> <<m, i, o, r, c>>] :
        m \in CostModels, i \in TokenCounts, o \in TokenCounts,
        r \in {0, 1000}, c \in {0, 1000}},
     {[fn |-> "getPricing", args |-> <<m>>] :
        m \in {NULL} \cup {Some(n) : n \in PricingNames}},
     {[fn |-> "extractBody", args |-> <<b>>] : b \in BodyTexts},
     {[fn |-> "extractHeaders", args |-> <<h>>] :
        h \in {NULL} \cup {Some(o) : o \in HeaderObjects}} >>

(***************************************************************************)
(* Specifications                                                          *)
(***************************************************************************)
InitAlerts ==
  /\ config \in AlertConfigs
  /\ faults \in SUBSET {"insertAlert", "notifyAll"}
  /\ AlertsIdle
  /\ TapIdle
  /\ RouterIdle
  /\ GatewayIdle
  /\ PureIdle

NextAlerts == \E remaining \in AlertRemaining : CheckAlertsCall(remaining)

SpecAlerts == InitAlerts /\ [][NextAlerts]_vars

InitTap ==
  /\ config \in {c \in AlertConfigs : c.alerts.tokenWarningPercent = 0
                                       /\ c.alerts.tokenCriticalPercent = 0}
  /\ AlertsIdle
  /\ tapInput \in TapStreams
  /\ tapPos = 0
  /\ tapSplit = FALSE
  /\ tapText = <<>>
  /\ tapBuffer = newTap.buffer
  /\ tapUsage = newTap.usage
  /\ tapOutput = newTap.output
  /\ tapCalls = newTap.calls
  /\ tapEnded = FALSE
  /\ tapError = newTap.error
  /\ faults \in {{}, {"onUsage"}}
  /\ RouterIdle
  /\ GatewayIdle
  /\ PureIdle

NextTap ==
  \/ \E n \in 1..Len(tapInput) : TapWrite(n)
  \/ TapEnd

SpecTap == InitTap /\ [][NextTap]_vars

InitRouter ==
  /\ config \in RouterConfigs
  /\ faults = {}
  /\ AlertsIdle
  /\ TapIdle
  /\ rtBody \in RouterBodies
  /\ rtSnapshot \in RouterSnapshots
  /\ rtArgs = [body |-> rtBody, snapshot |-> rtSnapshot]
  /\ rtResult = NULL
  /\ rtShould = NULL
  /\ GatewayIdle
  /\ PureIdle

NextRouter ==
  \/ MaybeRerouteCall
  \/ ShouldRouteCall

SpecRouter == InitRouter /\ [][NextRouter]_vars

Init ==
  /\ config \in GatewayConfigs
  /\ faults = {}
  /\ AlertsIdle
  /\ TapIdle
  /\ RouterIdle
  /\ GatewayIdle
  /\ PureIdle

Next ==
  \/ \E r \in Reqs, body \in GatewayRequests : HttpRequest(r, body)
  \/ \E r \in Reqs : ReqData(r)
  \/ \E r \in Reqs : ReqEnd(r)
  \/ \E r \in Reqs, message \in ErrorMessages : ProxyError(r, message)
  \/ \E r \in Reqs, response \in GatewayResponses : ProxyRes(r, response)
  \/ \E r \in Reqs : ProxyResData(r)
  \/ \E r \in Reqs : ProxyResEnd(r)
  \/ \E r \in Reqs, upstream \in {"responding", "aborted"} : ClientClose(r, upstream)

Spec == Init /\ [][Next]_vars

\* the gateway with routing enabled and one collaborator that fails whenever
\* it is called; the clients send opus requests, and the upstream answers
\* with an event stream at 96 % or a JSON message at 79 %
FaultRequests == {Q_opus}
FaultResponses == {P_sse96, P_json79}

InitFaults ==
  /\ config \in {c \in GatewayConfigs : c.routing.enabled}
  /\ faults \in {{k} : k \in GatewayFaults}
  /\ AlertsIdle
  /\ TapIdle
  /\ RouterIdle
  /\ GatewayIdle
  /\ PureIdle

NextFaults ==
  \/ \E r \in Reqs, body \in FaultRequests : HttpRequest(r, body)
  \/ \E r \in Reqs : ReqData(r)
  \/ \E r \in Reqs : ReqEnd(r)
  \/ \E r \in Reqs, message \in ErrorMessages : ProxyError(r, message)
  \/ \E r \in Reqs, response \in FaultResponses : ProxyRes(r, response)
  \/ \E r \in Reqs : ProxyResData(r)
  \/ \E r \in Reqs : ProxyResEnd(r)
  \/ \E r \in Reqs, upstream \in {"responding", "aborted"} : ClientClose(r, upstream)

SpecFaults == InitFaults /\ [][NextFaults]_vars

\* the gateway started with routing enabled on the database file of an
\* earlier session, whose last Snapshot row is at 96 %; the clients send
\* opus, dated opus and haiku requests, and the upstream answers with an
\* event stream at 96 %, a JSON message at 79 % or an event stream without
\* rate limit headers
StoredSnapshots == << snapshotRow(extractHeaders(P_sse96.headers, opus46)) >>
RestartRequests == {Q_opus, Q_dated, Q_haiku}
RestartResponses == {P_sse96, P_json79, P_sseBare}

InitRestart ==
  /\ config \in {c \in GatewayConfigs : c.routing.enabled}
  /\ faults = {}
  /\ AlertsIdle
  /\ TapIdle
  /\ RouterIdle
  /\ PureIdle
  /\ pc = [r \in Reqs |-> "idle"]
  /\ reqBody = [r \in Reqs |-> <<>>]
  /\ reqChunks = [r \in Reqs |-> <<>>]
  /\ tg = [r \in Reqs |-> NoTg]
  /\ forwarded = [r \in Reqs |-> NULL]
  /\ proxyRes = [r \in Reqs |-> NULL]
  /\ resGot = [r \in Reqs |-> 0]
  /\ handler = [r \in Reqs |-> NULL]
  /\ clientRes = [r \in Reqs |-> NoRes]
  /\ trace = [r \in Reqs |-> <<>>]
  /\ dbSnapshots = StoredSnapshots
  /\ dbCalls = <<>>

NextRestart ==
  \/ \E r \in Reqs, body \in RestartRequests : HttpRequest(r, body)
  \/ \E r \in Reqs : ReqData(r)
  \/ \E r \in Reqs : ReqEnd(r)
  \/ \E r \in Reqs, message \in ErrorMessages : ProxyError(r, message)
  \/ \E r \in Reqs, response \in RestartResponses : ProxyRes(r, response)
  \/ \E r \in Reqs : ProxyResData(r)
  \/ \E r \in Reqs : ProxyResEnd(r)
  \/ \E r \in Reqs, upstream \in {"responding", "aborted"} : ClientClose(r, upstream)

SpecRestart == InitRestart /\ [][NextRestart]_vars

InitPure ==
  /\ config \in {c \in GatewayConfigs : ~c.routing.enabled}
  /\ faults = {}
  /\ AlertsIdle
  /\ TapIdle
  /\ RouterIdle
  /\ GatewayIdle
  /\ \E i \in 1..Len(PureCalls) : pureCall \in PureCalls[i]
  /\ pureResult = NULL

NextPure ==
  \/ ComputeUsagePercentCall
  \/ ExtractHeadersCall
  \/ ExtractBodyCall
  \/ GetPricingCall
  \/ EstimateCostCall

SpecPure == InitPure /\ [][NextPure]_vars

(***************************************************************************)
(* Claims                                                                  *)
(***************************************************************************)

\* The usedPercent of the last checkAlerts call is at or above / below pct.
LastUsedAtLeast(pct) == lastEval.usedPercent # NULL /\ Val(lastEval.usedPercent) >= pct
LastUsedBelow(pct)   == lastEval.usedPercent # NULL /\ Val(lastEval.usedPercent) < pct

TierPct(t) == IF t = "token_warning" THEN WarningPctOf(config) ELSE CriticalPctOf(config)

\* C1: under a fixed threshold configuration each tier alert is emitted at
\* most once between two consecutive 'reset' events (and at most once before
\* the first), and re-evaluating a Snapshot whose usedPercent is still at or
\* above the tier's threshold emits no further alert for that tier.
\* Stated on every checkAlerts step: the count since the last reset stays at
\* most 1, and when the call evaluates the same Snapshot as the call before
\* it, at or above the tier's threshold, that call emits no alert of the tier.
C1_DedupPerExcursion ==
  [][ \A t \in Tiers :
        /\ tierCount'[t] <= 1
        /\ ( /\ evals > 0
             /\ evals' = evals + 1
             /\ lastEval'.remaining = lastEval.remaining
             /\ LastUsedAtLeast(TierPct(t)) )
           => Emits(emitted', t) = 0 ]_vars

OneChunkUsage(stream) == flush(transform(newTap, stream)).calls[1]

\* C3: for every sequence of chunks written to a StreamTap, the bytes it has
\* output are the bytes written, in order, and once it has ended its output
\* is the whole input, whatever the chunk boundaries and the content.
C3_PassThrough ==
  /\ tapOutput = SubSeq(tapInput, 1, tapPos)
  /\ (tapEnded => tapOutput = tapInput)

\* C3 witness: a stream with a malformed data line and a non-event line was
\* written in chunks that split a line, ended, and came out whole.
C3_Witness ==
  /\ tapEnded
  /\ tapSplit
  /\ tapInput = L_bad \o <<"nl">> \o L_other
  /\ tapOutput = tapInput

\* C4: however the stream is split into chunks (any split point), the Usage
\* passed to the completion callback equals the Usage of the same stream
\* written as a single chunk; the stream of the test (start event with
\* input_tokens 30, delta event with output_tokens 60) gives 30 and 60.
C4_SplitIndependent ==
  tapEnded =>
    /\ tapCalls = <<OneChunkUsage(tapInput)>>
    /\ (tapInput = ExampleStream =>
          tapCalls[1].inputTokens = 30 /\ tapCalls[1].outputTokens = 60)

\* C6: the completion callback is not invoked before the input ends; when
\* the input has ended it has been invoked exactly once, every byte has been
\* written, and its argument is the Usage accumulated over every line of the
\* text received (the unterminated last line included), which is the tap's
\* accumulated Usage; for the empty stream that is the all-zero Usage with
\* null stop reason and null model.
C6_CallbackOnce ==
  /\ (~tapEnded => tapCalls = <<>>)
  /\ (tapEnded =>
        /\ Len(tapCalls) = 1
        /\ tapPos = Len(tapInput)
        /\ tapCalls[1] = parseLines(emptyUsage, split(tapText))
        /\ tapCalls[1] = tapUsage
        /\ (tapInput = <<>> => tapCalls[1] = emptyUsage))

\* C6 witness: a stream whose last line, a delta event, has no newline was
\* written in split chunks and ended; the callback got input 30, output 60.
C6_Witness ==
  /\ tapEnded
  /\ tapSplit
  /\ tapInput = L_start \o <<"nl">> \o L_delta
  /\ tapCalls = <<[emptyUsage EXCEPT !.inputTokens = 30, !.outputTokens = 60,
                                     !.model = Some(<<"a">>),
                                     !.stopReason = Some(<<"a">>)]>>

\* p is Math.round(n / d), d > 0: the integer nearest to n / d, a half
\* rounding up.
IsRounded(p, n, d) == (2 * p - 1) * d <= 2 * n /\ 2 * n < (2 * p + 1) * d

\* C8: shouldRoute returns route = false when routing is disabled, when
\* there is no Snapshot or when its tokens-remaining is absent; otherwise
\* its usedPercent is round((knownLimit - remaining) / knownLimit * 100) and
\* route is true exactly when usedPercent >= the policy threshold (default
\* 80): knownLimit 400000, remaining 80000, threshold 80 give usedPercent 80
\* and route = true.
C8_ShouldRoute ==
  rtShould # NULL =>
    LET res  == Val(rtShould)
        snap == rtArgs.snapshot
        K    == IF config.routing.knownLimit = 0 THEN 400000 ELSE config.routing.knownLimit
        thr  == IF config.routing.threshold = 0 THEN 80 ELSE config.routing.threshold
    IN IF ~config.routing.enabled \/ snap = NULL \/ Val(snap).tokens_remaining = NULL
       THEN res.shouldRoute = FALSE
       ELSE LET r == Val(Val(snap).tokens_remaining) IN
            /\ res.usedPercent # NULL
            /\ IsRounded(Val(res.usedPercent), 100 * (K - r), K)
            /\ res.shouldRoute = (Val(res.usedPercent) >= thr)
            /\ (K = 400000 /\ r = 80000 /\ thr = 80
                  => Val(res.usedPercent) = 80 /\ res.shouldRoute)

\* C8 witness: routing enabled, remaining 80000 of 400000, threshold 80:
\* shouldRoute answered usedPercent 80, route = true.
C8_Witness ==
  /\ rtShould # NULL
  /\ config.routing.enabled
  /\ config.routing.threshold = 80
  /\ rtArgs.snapshot = Some([tokens_remaining |-> Some(80000)])
  /\ Val(rtShould).usedPercent = Some(80)
  /\ Val(rtShould).shouldRoute

Rerouted(res) == res.routedFrom # NULL /\ res.routedTo # NULL

\* C9: maybeReroute never modifies the body object or the Snapshot it is
\* given.  When it reroutes it returns a new body whose model is the target
\* model and whose every other field equals the input body's, and the input
\* body still holds the original model; when it does not reroute it returns
\* the input body itself.
C9_RouteFrame ==
  rtResult # NULL =>
    LET res == Val(rtResult) IN
    /\ rtBody = rtArgs.body
    /\ rtSnapshot = rtArgs.snapshot
    /\ IF Rerouted(res)
       THEN /\ ~res.sameObject
            /\ res.body # NULL
            /\ rtArgs.body # NULL
            /\ LET out == Val(res.body)
                   in  == Val(rtArgs.body)
               IN /\ DOMAIN out = DOMAIN in
                  /\ out.model = Val(res.routedTo)
                  /\ \A f \in DOMAIN in \ {"model"} : out[f] = in[f]
                  /\ Val(rtBody).model = Val(res.routedFrom)
                  /\ Val(rtBody).model # out.model
       ELSE res.sameObject /\ res.body = rtArgs.body

\* C9 witness: a body with other fields was rerouted from opus to sonnet
\* and the caller's object still names opus.
C9_Witness ==
  /\ rtResult # NULL
  /\ Val(rtResult).routedTo = Some(sonnet46)
  /\ Val(rtResult).body =
       Some([model |-> sonnet46, max_tokens |-> 512, system |-> "You are helpful."])
  /\ rtBody = Some([model |-> opus46, max_tokens |-> 512, system |-> "You are helpful."])

NotRewritten(res) ==
  /\ res.sameObject
  /\ res.body = rtArgs.body
  /\ res.routedFrom = NULL
  /\ res.routedTo = NULL

\* m is not a key of the ladder and appears in it only as a downgrade target
OnlyATarget(m, ladder) == m \notin Keys(ladder) /\ m \in Targets(ladder)

\* C10 (as claimed): a request whose model is not a key of the configured
\* ladder and appears only as a downgrade target is never rewritten by
\* maybeReroute, for every usedPercent: the body is returned unmodified with
\* routedFrom and routedTo null.
C10_FloorNeverRewritten ==
  (rtResult # NULL /\ rtArgs.body # NULL
     /\ OnlyATarget(ModelOf(Val(rtArgs.body)), LadderOf(config)))
  => NotRewritten(Val(rtResult))

\* The first ladder key (in ladder order) that is a prefix of m, if any,
\* maps to m itself.
NoOtherPrefixEntry(m, ladder) ==
  \A i \in 1..Len(ladder) :
    ( /\ startsWith(m, ladder[i][1])
      /\ \A j \in 1..(i - 1) : ~startsWith(m, ladder[j][1]) )
    => ladder[i][2] = m

\* C10 (amended): a request whose model is not a key of the configured
\* ladder, appears only as a downgrade target, and has no ladder key as a
\* prefix other than one whose entry maps to the model itself, is never
\* rewritten by maybeReroute, for every usedPercent.
C10_FloorNeverRewrittenAmended ==
  (rtResult # NULL /\ rtArgs.body # NULL
     /\ OnlyATarget(ModelOf(Val(rtArgs.body)), LadderOf(config))
     /\ NoOtherPrefixEntry(ModelOf(Val(rtArgs.body)), LadderOf(config)))
  => NotRewritten(Val(rtResult))

\* C10 witness: with routing on and usedPercent 81 >= 80, the floor of the
\* default ladder (claude-haiku-4-6) came back unmodified.
C10_Witness ==
  /\ rtResult # NULL
  /\ config.routing.enabled
  /\ config.routing.ladder = NULL
  /\ rtArgs.snapshot = Some([tokens_remaining |-> Some(76000)])
  /\ rtArgs.body = Some([model |-> haiku46])
  /\ Val(rtResult).usedPercent = Some(81)
  /\ NotRewritten(Val(rtResult))

\* the target of the ladder's entry for `key`
EntryOf(ladder, key) == ladder[CHOOSE i \in 1..Len(ladder) : ladder[i][1] = key][2]

\* C11: when maybeReroute reroutes, the target is the ladder entry of the
\* requested model if the model is a key of the ladder, and otherwise the
\* entry of a ladder key that is a prefix of the model; it is the result of
\* one lookup, also when the target is itself a key of the ladder
\* (claude-opus-4-6 goes to claude-sonnet-4-6, never on to claude-haiku-4-6).
C11_SingleLookup ==
  (rtResult # NULL /\ Rerouted(Val(rtResult))) =>
    LET m      == ModelOf(Val(rtArgs.body))
        ladder == LadderOf(config)
        target == Val(Val(rtResult).routedTo)
    IN /\ Val(rtResult).routedFrom = Some(m)
       /\ ModelOf(Val(Val(rtResult).body)) = target
       /\ IF m \in Keys(ladder)
          THEN target = EntryOf(ladder, m)
          ELSE \E i \in 1..Len(ladder) :
                 startsWith(m, ladder[i][1]) /\ target = ladder[i][2]
       /\ (m = opus46 /\ config.routing.ladder # Some(Claude3Ladder)
             => target = sonnet46 /\ target # haiku46)

(***************************************************************************)
(* The gateway (Spec)                                                      *)
(***************************************************************************)
\* the positions of a request's trace where `op` was done / `name` emitted
Did(r, op) == {i \in 1..Len(trace[r]) : trace[r][i].op = op}
Emitted(r, name) ==
  {i \in 1..Len(trace[r]) : trace[r][i].op = "emit" /\ trace[r][i].name = name}

\* the response's content type names an event stream, in any letter case
EventStream(response) ==
  /\ "content-type" \in DOMAIN response.headers
  /\ \E i \in 1..Len(response.headers["content-type"]) :
       response.headers["content-type"][i] \in {"text/event-stream", "Text/Event-Stream"}

\* C5: a request whose upstream response body was received to its end has
\* handed exactly one Call record to storage and emitted exactly one 'call'
\* event with that record, from the stream tap's callback if and only if
\* the response is an event stream and from the buffered path's 'end'
\* listener otherwise, the other path never having run; a request whose
\* response has not ended has done neither.
C5_OneCallOnePath ==
  \A r \in Reqs :
    IF pc[r] = "done"
    THEN LET stream == EventStream(Val(proxyRes[r])) IN
         /\ Cardinality(Did(r, "insertCall")) = 1
         /\ Cardinality(Emitted(r, "call")) = 1
         /\ \A i \in Did(r, "insertCall") :
              /\ trace[r][i].type = (IF stream THEN "tap" ELSE "end")
              /\ trace[r][i].data.stream = stream
              /\ \A j \in Emitted(r, "call") : j > i /\ trace[r][j].data = trace[r][i].data
         /\ Len(Val(handler[r]).tap.calls) = (IF stream THEN 1 ELSE 0)
         /\ stream => Val(handler[r]).chunks = <<>>
    ELSE Did(r, "insertCall") = {} /\ Emitted(r, "call") = {}

\* both paths have been taken to their end, by two requests
C5_Witness ==
  \E r, q \in Reqs :
    /\ pc[r] = "done" /\ pc[q] = "done"
    /\ Val(handler[r]).streamFlag /\ ~Val(handler[q]).streamFlag
    /\ Len(dbCalls) = 2

\* the response carries a tokens-remaining header that holds a number
HasTokens(response) ==
  /\ "anthropic-ratelimit-tokens-remaining" \in DOMAIN response.headers
  /\ response.headers["anthropic-ratelimit-tokens-remaining"].digits # NULL

AlertWork == {"insertSnapshot", "checkAlerts", "insertAlert", "notifyAll"}

\* C7: when the status and headers of an upstream response are written to
\* a request's client, the Snapshot of that response (if it has token
\* data) has already been inserted into storage and then evaluated by the
\* Alert Evaluator, in that request's own handler; nothing of the Snapshot
\* processing (insert, 'snapshot' event, evaluation, tier alerts, recovery)
\* comes after the write.
C7_SnapshotBeforeHead ==
  \A r \in Reqs :
    \A i \in Did(r, "writeHead") :
      pc[r] # "failed" =>
        /\ HasTokens(Val(proxyRes[r])) =>
             \E j, k \in 1..(i - 1) :
               /\ j < k
               /\ trace[r][j].op = "insertSnapshot"
               /\ trace[r][k].op = "checkAlerts"
               /\ trace[r][j].data = trace[r][k].data
               /\ trace[r][j].data.tokensRemaining =
                    Val(proxyRes[r]).headers["anthropic-ratelimit-tokens-remaining"].digits
               /\ \E n \in 1..Len(dbSnapshots) :
                    dbSnapshots[n] = snapshotRow(trace[r][j].data)
        /\ \A j \in (i + 1)..Len(trace[r]) :
             /\ trace[r][j].op \notin AlertWork
             /\ trace[r][j].op = "emit" =>
                  trace[r][j].type \notin {"snapshot", "token_warning", "token_critical", "reset"}

\* a response at 96 % has fired the critical alert and its head is written
C7_Witness ==
  \E r \in Reqs :
    /\ clientRes[r].statusCode = Some(200)
    /\ \E i \in Did(r, "writeHead") :
         \E j \in 1..(i - 1) :
           trace[r][j].op = "emit" /\ trace[r][j].type = "token_critical"

\* the request was rerouted: its req 'end' handler emitted route_downgrade
WasRerouted(r) ==
  \E i \in Emitted(r, "alert") : trace[r][i].type = "route_downgrade"

\* the Snapshot row the routing decision of the request read, NULL if it
\* read none or found none
DecisionSnapshot(r) ==
  IF Did(r, "getLatestSnapshot") = {} THEN NULL
  ELSE trace[r][CHOOSE i \in Did(r, "getLatestSnapshot") : TRUE].data

\* one of the cases in which no reroute is due
NoRerouteDue(r) ==
  \/ ~config.routing.enabled
  \/ DecisionSnapshot(r) = NULL
  \/ 2 * 100 * (400000 - Val(Val(DecisionSnapshot(r)).tokens_remaining)) < (2 * 80 - 1) * 400000
  \/ reqBody[r] \in {Q_none, Q_text}
  \/ reqBody[r] = Q_nomodel
  \/ reqBody[r] = Q_haiku

\* C12: a request for which no reroute occurs (routing disabled, no
\* Snapshot yet, usedPercent below the threshold, empty or non-JSON body,
\* body without a model, model without a downgrade) is forwarded with
\* exactly the bytes received from the client, gets no header added to its
\* response beyond the upstream's own, and its Call record has routed-from
\* null; each of the listed cases is one in which no reroute occurs.
C12_NoRerouteFrame ==
  \A r \in Reqs :
    forwarded[r] # NULL =>
      /\ NoRerouteDue(r) => ~WasRerouted(r)
      /\ ~WasRerouted(r) =>
           /\ Val(forwarded[r]).body = concat(reqBody[r])
           /\ tg[r].routedFrom = NULL /\ tg[r].routingHeaders = NULL
           /\ (proxyRes[r] # NULL =>
                 DOMAIN Val(clientRes[r].headers) \subseteq DOMAIN Val(proxyRes[r]).headers)
           /\ \A i \in Did(r, "insertCall") : trace[r][i].data.routedFrom = NULL

\* with routing enabled and a Snapshot at 79 %, an opus request written
\* with whitespace has been forwarded and answered without a reroute
C12_Witness ==
  \E r \in Reqs :
    /\ config.routing.enabled
    /\ reqBody[r] = Q_opus
    /\ DecisionSnapshot(r) # NULL
    /\ pc[r] = "done"
    /\ ~WasRerouted(r)
    /\ Val(forwarded[r]).body = concat(Q_opus)

\* C13: a request is forwarded upstream only once every chunk of its body
\* has been received, and the content-length sent upstream is the byte
\* length of the body that is forwarded, rewritten or not.
C13_ForwardWholeBody ==
  \A r \in Reqs :
    /\ forwarded[r] # NULL =>
         /\ reqChunks[r] = reqBody[r]
         /\ pc[r] # "receiving"
         /\ Val(forwarded[r]).contentLength = ToString(length(Val(forwarded[r]).body))
    /\ pc[r] \in {"idle", "receiving"} => forwarded[r] = NULL

\* a request in two chunks was rerouted and forwarded with a body shorter
\* than the one received
C13_Witness ==
  \E r \in Reqs :
    /\ reqBody[r] = Q_opus
    /\ WasRerouted(r)
    /\ forwarded[r] # NULL
    /\ length(Val(forwarded[r]).body) < length(concat(Q_opus))

Range(seq) == {seq[i] : i \in 1..Len(seq)}

\* the gateway accepts the next request that arrives
Serving ==
  /\ ~crashed
  /\ \A q \in Reqs :
       (pc[q] = "idle" /\ \A p \in Reqs : p < q => pc[p] # "idle")
         => ENABLED HttpRequest(q, Q_opus)

\* C14: a request whose upstream connection failed before the response
\* headers were received has sent its client the status 502 with a JSON
\* body that has the members `error` and `message`, and has ended the
\* response; no Call record was handed to storage and no 'call' event was
\* emitted for it; the gateway has not crashed and accepts the next request.
C14_UpstreamFailure ==
  \A r \in Reqs :
    pc[r] = "failed" =>
      /\ clientRes[r].statusCode = Some(502)
      /\ Val(clientRes[r].headers) = ("Content-Type" :> <<"application/json">>)
      /\ Len(clientRes[r].body) >= 2
      /\ clientRes[r].body[1] = "{"
      /\ clientRes[r].body[Len(clientRes[r].body)] = "}"
      /\ {"error", "message"} \subseteq Range(clientRes[r].body)
      /\ clientRes[r].ended
      /\ Did(r, "insertCall") = {}
      /\ Emitted(r, "call") = {}
      /\ proxyRes[r] = NULL
      /\ Serving

C14_Witness ==
  /\ pc[1] = "failed"
  /\ clientRes[1].ended
  /\ pc[2] = "done"
  /\ Did(2, "insertCall") # {}

\* C15: once the client of a streaming response has disconnected and
\* nothing more of the upstream response will arrive (it ended, or it was
\* aborted with the request), a Call record carrying the Usage accumulated
\* from the events the tap observed has been handed to storage for that
\* request.
C15_PartialUsageRecorded ==
  \A r \in Reqs :
    (clientRes[r].closed /\ pc[r] \in {"done", "aborted"}) =>
      \E i \in Did(r, "insertCall") :
        /\ trace[r][i].data.stream
        /\ trace[r][i].data.inputTokens = Val(handler[r]).tap.usage.inputTokens
        /\ trace[r][i].data.outputTokens = Val(handler[r]).tap.usage.outputTokens

\* ---- failing collaborators (SpecFaults)
\* no exception has left a handler: the process is up, every handler ran to
\* its end, a request whose upstream response head arrived has had it
\* written to its client, and a request whose upstream body ended has
\* delivered the whole body to a client that stayed, and ended the response
Recovered ==
  /\ ~crashed
  /\ \A r \in Reqs :
       /\ pc[r] # "broken"
       /\ Did(r, "thrown") = {}
       /\ (pc[r] = "receiving" /\ Len(reqChunks[r]) = Len(reqBody[r])) => ENABLED ReqEnd(r)
       /\ proxyRes[r] # NULL =>
            clientRes[r].statusCode = Some(Val(proxyRes[r]).statusCode)
       /\ (pc[r] = "done" /\ ~clientRes[r].closed) =>
            /\ clientRes[r].body = concat(Val(proxyRes[r]).chunks)
            /\ clientRes[r].ended

StorageFaults == {"getLatestSnapshot", "insertSnapshot", "insertCall"}
ListenerFaults == {"snapshot", "call", "alert", "reset"}

\* C16: when a storage operation of the gateway throws (getLatestSnapshot
\* before the routing decision, insertSnapshot on the response head,
\* insertCall on finalization), the exception is caught where it is raised:
\* the request is forwarded, the client receives the upstream response, the
\* process stays up, and a failed insertCall is followed by the 'call'
\* event of the same record.
C16_StorageFailureRecovered ==
  faults \subseteq StorageFaults =>
    /\ Recovered
    /\ \A r \in Reqs : \A i \in Did(r, "insertCall") :
         LET j == IF "insertCall" \in faults THEN i + 2 ELSE i + 1 IN
           /\ j <= Len(trace[r])
           /\ "insertCall" \in faults => trace[r][i + 1].op = "caught"
           /\ trace[r][j].op = "emit"
           /\ trace[r][j].name = "call"
           /\ trace[r][j].data = trace[r][i].data

\* C17: when a listener of 'snapshot', 'call', 'alert' or 'reset' throws,
\* the exception does not leave the emit: the response head and body are
\* still delivered to the client, and the process stays up and goes on
\* handling that and later requests.
C17_ListenerFailureSwallowed ==
  faults \subseteq ListenerFaults => Recovered

\* ---- failing collaborators of the Alert Evaluator (SpecAlerts)
TierKey(t) ==
  IF t = "token_warning" THEN <<"warning", WarningPctOf(config)>>
  ELSE <<"critical", CriticalPctOf(config)>>

\* the positions of the last evaluation's effects of one kind for a tier
TierDid(op, t) == {i \in 1..Len(emitted) : emitted[i].op = op /\ emitted[i].type = t}

\* C18: in every evaluation, whether the notifier or the alert insert fails
\* or not: a tier that fires has its key in AlertState when the recovery
\* condition is tested (only a recovery detected for the same Snapshot
\* removes it), its 'alert' event is emitted before the insert and the
\* notification are attempted, both are attempted, and a failure of either
\* is caught; the critical tier is then evaluated (it fires if usedPercent
\* is at or above its threshold and its key was not in AlertState), and so
\* is the recovery condition (below the warning threshold with a non-empty
\* AlertState it clears AlertState and emits 'reset').
C18_AlertSurvivesFailure ==
  /\ ~crashed
  /\ \A i \in 1..Len(emitted) :
       /\ emitted[i].op # "thrown"
       /\ (emitted[i].op \in {"insertAlert", "notifyAll"} /\ emitted[i].op \in faults)
            => (i < Len(emitted) /\ emitted[i + 1].op = "caught")
  /\ \A t \in Tiers :
       /\ Cardinality(TierDid("emit", t)) <= 1
       /\ \A i \in TierDid("emit", t) :
            /\ TierKey(t) \in lastEval.tested
            /\ (Emits(emitted, "reset") = 0 => TierKey(t) \in firedAlerts)
            /\ \E j \in TierDid("insertAlert", t), k \in TierDid("notifyAll", t) :
                 i < j /\ j < k
       /\ \A j \in TierDid("insertAlert", t) \cup TierDid("notifyAll", t) :
            \E i \in TierDid("emit", t) : i < j
  /\ (LastUsedAtLeast(CriticalPctOf(config))
        /\ TierKey("token_critical") \notin lastEval.before)
       => Emits(emitted, "token_critical") = 1
  /\ (LastUsedBelow(WarningPctOf(config)) /\ lastEval.tested # {})
       => (Emits(emitted, "reset") = 1 /\ firedAlerts = {})

\* C18 witness: the insert and the notification of the warning alert both
\* failed, and the same evaluation went on to fire the critical tier, whose
\* insert and notification failed as well; both keys are in AlertState.
C18_Witness ==
  /\ faults = {"insertAlert", "notifyAll"}
  /\ \E i \in TierDid("insertAlert", "token_warning") :
       /\ emitted[i + 1].op = "caught"
       /\ \E j \in TierDid("emit", "token_critical") : i < j
  /\ \E i \in TierDid("notifyAll", "token_critical") : emitted[i + 1].op = "caught"
  /\ {TierKey("token_warning"), TierKey("token_critical")} \subseteq firedAlerts

\* C19: when the completion callback throws, no exception leaves _flush:
\* once the callback was called the tap has completed its flush and ended
\* without a stream error, and every byte written to the tap has been
\* pushed to its output, before and after the end.
C19_CallbackErrorContained ==
  "onUsage" \in faults =>
    /\ tapError = NULL
    /\ tapOutput = SubSeq(tapInput, 1, tapPos)
    /\ (tapCalls # <<>> =>
          /\ tapEnded
          /\ Len(tapCalls) = 1
          /\ tapOutput = tapInput)

\* C19 witness: a stream of at least two bytes was written and ended, the
\* callback was called and threw, and the tap ended with its output whole.
C19_Witness ==
  /\ "onUsage" \in faults
  /\ Len(tapInput) >= 2
  /\ Len(tapCalls) = 1
  /\ tapEnded
  /\ tapError = NULL
  /\ tapOutput = tapInput

\* the effects request r's handler added in the step
Added(r) == SubSeq(trace'[r], Len(trace[r]) + 1, Len(trace'[r]))

Count(effects, op) == Cardinality({i \in 1..Len(effects) : effects[i].op = op})

\* C20: in the step that handles the head of an upstream response, the
\* Snapshot is inserted into storage (it becomes storage's latest), emitted
\* as one 'snapshot' event and given to the Alert Evaluator, each once,
\* when the response has a parseable tokens-remaining header; when it has
\* not, none of the three happens and storage's Snapshots and AlertState
\* are unchanged.
C20_SnapshotIffTokens ==
  [][ \A r \in Reqs :
        (pc[r] = "forwarded" /\ pc'[r] = "responding") =>
          IF HasTokens(Val(proxyRes'[r]))
          THEN /\ Count(Added(r), "insertSnapshot") = 1
               /\ Count(Added(r), "checkAlerts") = 1
               /\ Cardinality({i \in 1..Len(Added(r)) :
                                 Added(r)[i].op = "emit" /\ Added(r)[i].name = "snapshot"}) = 1
               /\ Len(dbSnapshots') = Len(dbSnapshots) + 1
               /\ Val(getLatestSnapshot(dbSnapshots')).tokens_remaining =
                    Val(proxyRes'[r]).headers["anthropic-ratelimit-tokens-remaining"].digits
          ELSE /\ Count(Added(r), "insertSnapshot") = 0
               /\ Count(Added(r), "checkAlerts") = 0
               /\ \A i \in 1..Len(Added(r)) :
                    Added(r)[i].op = "emit" => Added(r)[i].name # "snapshot"
               /\ dbSnapshots' = dbSnapshots
               /\ firedAlerts' = firedAlerts ]_vars

\* C20 witness: after a response at 96 % was stored and fired alerts, the
\* head of a response without a parseable tokens-remaining header was
\* handled; storage and AlertState still hold what the first response left
C20_Witness ==
  /\ pc[1] = "done"
  /\ HasTokens(Val(proxyRes[1]))
  /\ Did(1, "insertSnapshot") # {}
  /\ pc[2] = "responding"
  /\ ~HasTokens(Val(proxyRes[2]))
  /\ "anthropic-ratelimit-tokens-remaining" \in DOMAIN Val(proxyRes[2]).headers
  /\ Did(2, "insertSnapshot") = {}
  /\ Len(dbSnapshots) = 1
  /\ firedAlerts # {}

\* the 'alert' events of type rate_limit_hit among request r's effects
RateLimitHits(r) ==
  {i \in 1..Len(trace[r]) : trace[r][i].op = "emit" /\ trace[r][i].type = "rate_limit_hit"}

\* C21: a request whose upstream response head has arrived has emitted
\* exactly one rate_limit_hit alert if the status is 429 and none otherwise,
\* whatever AlertState held; the alert comes after the head is written; and
\* when the body has ended, the request's Call record carries the error
\* code '429'.
C21_RateLimitHit ==
  \A r \in Reqs :
    pc[r] \in {"responding", "done", "aborted"} =>
      IF Val(proxyRes[r]).statusCode = 429
      THEN /\ Cardinality(RateLimitHits(r)) = 1
           /\ \A i \in RateLimitHits(r) :
                /\ trace[r][i].name = "alert"
                /\ \E j \in Did(r, "writeHead") : j < i
           /\ pc[r] = "done" =>
                \A i \in Did(r, "insertCall") : trace[r][i].data.errorCode = Some("429")
      ELSE RateLimitHits(r) = {}

\* C21 witness: two requests were answered with 429; the second one's head
\* arrived when AlertState already held both tier keys, and both have
\* emitted their rate_limit_hit alert; the first is recorded with '429'
C21_Witness ==
  /\ pc[1] = "done"
  /\ Val(proxyRes[1]).statusCode = 429
  /\ \E i \in Did(1, "insertCall") : trace[1][i].data.errorCode = Some("429")
  /\ pc[2] = "responding"
  /\ Val(proxyRes[2]).statusCode = 429
  /\ Did(2, "insertAlert") = {}
  /\ Cardinality(firedAlerts) = 2
  /\ RateLimitHits(1) # {}
  /\ RateLimitHits(2) # {}

\* the names of the hop-by-hop headers
HopNames ==
  {"connection", "keep-alive", "proxy-authenticate", "proxy-authorization",
   "te", "trailers", "transfer-encoding", "upgrade"}

\* the names of the routing-metadata headers
RoutingNames == DOMAIN buildRoutingHeaders(<<>>, <<>>, 0)

\* C22: the headers written to the client of a request whose upstream
\* response head arrived are the upstream's headers without the hop-by-hop
\* ones (names compared in lower case), each with the upstream's value, and
\* the four routing-metadata headers, built from that request's reroute,
\* exactly when the request was rerouted.
C22_ResponseHeaders ==
  \A r \in Reqs :
    pc[r] \in {"responding", "done", "aborted"} =>
      LET up   == Val(proxyRes[r]).headers
          out  == Val(clientRes[r].headers)
          kept == {k \in DOMAIN up : lowerName(k) \notin HopNames}
          added == IF WasRerouted(r) THEN RoutingNames ELSE {}
      IN /\ DOMAIN out = kept \cup added
         /\ \A k \in kept \ added : out[k] = up[k]
         /\ Cardinality(RoutingNames) = 4
         /\ WasRerouted(r) =>
              \A k \in RoutingNames :
                out[k] = buildRoutingHeaders(Val(tg[r].routedFrom), Val(tg[r].model),
                                             trace[r][CHOOSE i \in Emitted(r, "alert") :
                                               trace[r][i].type = "route_downgrade"].data.usedPercent)[k]
         /\ \A i \in Did(r, "writeHead") : trace[r][i].data.headers = out

\* C22 witness: a request that was not rerouted got an event stream whose
\* transfer-encoding header was dropped and whose other headers were kept,
\* nothing added; a later request was rerouted and got a response whose
\* connection header was dropped and to which the four headers were added
C22_Witness ==
  /\ ~WasRerouted(1)
  /\ pc[1] = "done"
  /\ "transfer-encoding" \in DOMAIN Val(proxyRes[1]).headers
  /\ DOMAIN Val(clientRes[1].headers) =
       {"content-type", "anthropic-ratelimit-tokens-remaining", "request-id"}
  /\ WasRerouted(2)
  /\ pc[2] = "responding"
  /\ "connection" \in DOMAIN Val(proxyRes[2]).headers
  /\ DOMAIN Val(clientRes[2].headers) =
       {"content-type", "anthropic-ratelimit-tokens-remaining", "request-id"}
         \cup RoutingNames

\* C23: the routing headers built for a rerouted request are the four
\* headers x-tollgate-routed = 'true', x-tollgate-original-model = the
\* requested model, x-tollgate-routed-model = the model routed to, and
\* x-tollgate-reason = 'token-threshold-' followed by the used percentage.
C23_RoutingHeaderNames ==
  \A r \in Reqs :
    tg[r].routingHeaders # NULL =>
      \E usedPercent \in 0..100 :
        Val(tg[r].routingHeaders) =
          ("x-tollgate-routed" :> "true")
            @@ ("x-tollgate-original-model" :> Val(tg[r].routedFrom))
            @@ ("x-tollgate-routed-model" :> Val(tg[r].model))
            @@ ("x-tollgate-reason" :> <<"token-threshold-", usedPercent>>)

\* ---- exported functions (SpecPure)
HasReturned(fn) == pureCall.fn = fn /\ pureResult # NULL

\* C24: computeUsagePercent returns absent when the Snapshot or its
\* tokens-remaining is absent, and otherwise the used percentage
\* round(((knownLimit - remaining) / knownLimit) * 100), here for the
\* default limit of 400000.
C24_UsedPercent ==
  HasReturned("computeUsagePercent") =>
    LET snapshot == pureCall.args[1] IN
      IF snapshot = NULL \/ Val(snapshot).tokens_remaining = NULL
      THEN Val(pureResult) = NULL
      ELSE Val(pureResult) =
             Some(UsedPercent(DefaultKnownLimit, Val(Val(snapshot).tokens_remaining)))

\* what request r's own body and the Snapshot row its routing decision read
\* determine: the body to forward and the _tg fields
OwnDecision(r) ==
  LET rawBody    == concat(reqBody[r])
      parsedBody == IF length(rawBody) > 0 THEN JSONparseBody(rawBody) ELSE NULL
      rr         == maybeReroute(parsedBody, DecisionSnapshot(r), config)
      rerouted   == /\ parsedBody # NULL
                    /\ config.routing.enabled
                    /\ rr.routedFrom # NULL
                    /\ rr.routedTo # NULL
  IN [body |-> forwardedBody(rawBody, rerouted, rr.body),
      model |-> IF rerouted THEN rr.routedTo ELSE Some(ModelOrUnknown(parsedBody)),
      routedFrom |-> IF rerouted THEN rr.routedFrom ELSE NULL,
      routingHeaders |->
        IF rerouted
        THEN Some(buildRoutingHeaders(Val(rr.routedFrom), Val(rr.routedTo),
                                      Val(rr.usedPercent)))
        ELSE NULL]

\* the Usage a tap of its own accumulates over the chunks of a stream
RECURSIVE TapOver(_, _)
TapOver(tap, chunks) ==
  IF chunks = <<>> THEN flush(tap).usage
  ELSE TapOver(transform(tap, Head(chunks)), Tail(chunks))

\* what request r's own upstream response determines of its Call record
OwnUsage(r) ==
  IF isStreaming(Val(proxyRes[r]).headers)
  THEN TapOver(newTap, Val(proxyRes[r]).chunks)
  ELSE extractBody(concat(Val(proxyRes[r]).chunks))

OwnRequestId(r) ==
  IF "request-id" \in DOMAIN Val(proxyRes[r]).headers
  THEN Some(Val(proxyRes[r]).headers["request-id"]) ELSE NULL

\* C25: in every interleaving of the events of the requests in flight, a
\* request's forwarded body and routing fields are those its own body and
\* the Snapshot latest at its routing decision determine, the routing
\* headers written to its client are its own, and its Call record has its
\* own model, routed-from model, streaming flag, error code, request
\* identifier and the Usage of its own response body.
C25_RequestsIsolated ==
  \A r \in Reqs :
    /\ forwarded[r] # NULL =>
         /\ Val(forwarded[r]).body = OwnDecision(r).body
         /\ tg[r].model = OwnDecision(r).model
         /\ tg[r].routedFrom = OwnDecision(r).routedFrom
         /\ tg[r].routingHeaders = OwnDecision(r).routingHeaders
    /\ pc[r] \in {"responding", "done", "aborted"} =>
         \A k \in RoutingNames :
           IF OwnDecision(r).routingHeaders = NULL
           THEN k \notin DOMAIN Val(clientRes[r].headers)
           ELSE Val(clientRes[r].headers)[k] = Val(OwnDecision(r).routingHeaders)[k]
    /\ \A i \in Did(r, "insertCall") :
         LET call == trace[r][i].data IN
           /\ call.model = Val(OwnDecision(r).model)
           /\ call.routedFrom = OwnDecision(r).routedFrom
           /\ call.stream = isStreaming(Val(proxyRes[r]).headers)
           /\ call.errorCode = errorCodeOf(Val(proxyRes[r]).statusCode)
           /\ call.requestId = OwnRequestId(r)
           /\ call.inputTokens = OwnUsage(r).inputTokens
           /\ call.outputTokens = OwnUsage(r).outputTokens
           /\ call.cacheRead = OwnUsage(r).cacheRead
           /\ call.cacheCreation = OwnUsage(r).cacheCreation
           /\ call.stopReason = OwnUsage(r).stopReason

\* C25 witness: request 2 arrived while request 1 was waiting for its
\* upstream response, both responses were interleaved, and both requests
\* are recorded: request 1, an opus request answered by an event stream,
\* not rerouted; request 2, made after request 1's head stored a Snapshot
\* at 96 %, rerouted and answered with a 429
C25_Witness ==
  /\ pc[1] = "done" /\ pc[2] = "done"
  /\ reqBody[1] = Q_opus /\ reqBody[2] = Q_dated
  /\ ~WasRerouted(1) /\ WasRerouted(2)
  /\ Val(proxyRes[1]) = P_sse96 /\ Val(proxyRes[2]) = P_429
  /\ Did(1, "insertCall") # {} /\ Did(2, "insertCall") # {}
  /\ \E i \in Did(1, "insertCall"), j \in Did(2, "insertCall") :
       /\ trace[1][i].data.model # trace[2][j].data.model
       /\ trace[1][i].data.inputTokens = 30
       /\ trace[2][j].data.errorCode = Some("429")

\* the model a request's own body asks for, and the model in the body
\* forwarded for it
AskedModel(r) ==
  LET rawBody == concat(reqBody[r])
  IN ModelOrUnknown(IF length(rawBody) > 0 THEN JSONparseBody(rawBody) ELSE NULL)
SentModel(r) == ModelOf(Val(JSONparseBody(Val(forwarded[r]).body)))

\* the entry a table lists under `key` itself
OwnOnly(table, key) ==
  IF \E i \in 1..Len(table) : table[i][1] = key
  THEN Some(table[CHOOSE i \in 1..Len(table) : table[i][1] = key][2])
  ELSE NULL

\* the cost of a Call's token counts at the rates the pricing table lists
\* under `model`
CostAtRates(model, call) ==
  LET rates == Val(OwnOnly(PRICING, model)) IN
    100 * call.inputTokens * Val(rates.input)
      + 100 * call.outputTokens * Val(rates.output)
      + 10 * call.cacheRead * Val(rates.input)
      + 125 * call.cacheCreation * Val(rates.input)

\* C26: the Call record of a rerouted request has the routed-to model (the
\* model of the forwarded body), the originally requested model as its
\* routed-from field and a cost at the routed-to model's rates; the Call
\* record of a request that is not rerouted has the requested model and no
\* routed-from model.
C26_CallOfRerouted ==
  \A r \in Reqs :
    \A i \in Did(r, "insertCall") :
      LET call == trace[r][i].data IN
        IF tg[r].routedFrom # NULL
        THEN /\ SentModel(r) # AskedModel(r)
             /\ call.model = SentModel(r)
             /\ call.routedFrom = Some(AskedModel(r))
             /\ call.costUsd = Some(CostAtRates(SentModel(r), call))
        ELSE /\ call.model = AskedModel(r)
             /\ call.routedFrom = NULL

\* a rerouted request with tokens on its Call record, whose cost differs
\* from the cost at the rates of the model it asked for, next to a request
\* that was not rerouted
C26_Witness ==
  /\ \E r \in Reqs : \E i \in Did(r, "insertCall") :
       /\ tg[r].routedFrom # NULL
       /\ AskedModel(r) = opus46
       /\ trace[r][i].data.inputTokens > 0
       /\ trace[r][i].data.costUsd # Some(CostAtRates(AskedModel(r), trace[r][i].data))
  /\ \E r \in Reqs : \E i \in Did(r, "insertCall") :
       /\ tg[r].routedFrom = NULL
       /\ trace[r][i].data.model = opus46

\* the four rate limit counts of a Snapshot, with the header each is read from
RemainingFields ==
  << <<"requestsRemaining", "anthropic-ratelimit-requests-remaining">>,
     <<"tokensRemaining", "anthropic-ratelimit-tokens-remaining">>,
     <<"inputTokensRemaining", "anthropic-ratelimit-input-tokens-remaining">>,
     <<"outputTokensRemaining", "anthropic-ratelimit-output-tokens-remaining">> >>

\* a header text that is a decimal number and nothing else
Numeric(text) == text.sign = "" /\ text.digits # NULL /\ text.rest = ""

\* C27: extractHeaders returns for every header object, null included, and
\* each of the four rate limit counts of the result is a non-negative
\* integer or absent; it is absent when the header is missing, empty or
\* not a number.
C27_CountsNonNegativeOrAbsent ==
  HasReturned("extractHeaders") =>
    LET headers == pureCall.args[1]
        snapshot == Val(pureResult)
    IN \A i \in 1..Len(RemainingFields) :
         LET field == snapshot[RemainingFields[i][1]]
             name == RemainingFields[i][2]
         IN /\ field = NULL \/ Val(field) \in Nat
            /\ (headers = NULL \/ name \notin DOMAIN Val(headers)) => field = NULL
            /\ (headers # NULL /\ name \in DOMAIN Val(headers)
                  /\ ~Numeric(Val(headers)[name])) => field = NULL

\* a body text is one object: braces around an optional kind, counts and
\* the characters of a name, in this order
IsObjectText(text) ==
  /\ Len(text) >= 2 /\ text[1] = "{" /\ text[Len(text)] = "}"
  /\ \A x \in 2..(Len(text) - 1) :
       /\ text[x] \in KindTokens \cup FieldTokens \cup NameChars
       /\ text[x] \in KindTokens => x = 2
       /\ text[x] \in FieldTokens =>
            \A y \in 2..(x - 1) : text[y] \in KindTokens \cup FieldTokens

\* the count of an object text's own usage object, NULL when it is missing
\* (the counts of a message_start are not in its own usage object)
OwnCount(text, letter, value) ==
  IF (\E x \in 1..Len(text) : text[x] = letter) /\ ~(\E x \in 1..Len(text) : text[x] = "S")
  THEN Some(value) ELSE NULL

Default0(count) == IF count = NULL THEN 0 ELSE Val(count)

\* C28: for a body that is not parseable JSON extractBody returns the Usage
\* with all four counts 0 and no stop reason and no model, and does not
\* throw; for a parseable body each count missing from its usage object is
\* 0 and a missing stop reason or model is null.
C28_UsageOfBody ==
  HasReturned("extractBody") =>
    LET text == toStringUtf8(pureCall.args[1])
        usage == Val(pureResult)
    IN IF ~IsObjectText(text)
       THEN usage = [inputTokens |-> 0, outputTokens |-> 0, cacheRead |-> 0,
                     cacheCreation |-> 0, stopReason |-> NULL, model |-> NULL]
       ELSE /\ usage.inputTokens =
                 Default0(IF OwnCount(text, "iN5", 0 - 5) # NULL
                          THEN OwnCount(text, "iN5", 0 - 5) ELSE OwnCount(text, "i30", 30))
            /\ usage.outputTokens = Default0(OwnCount(text, "o60", 60))
            /\ usage.cacheRead = Default0(OwnCount(text, "r20", 20))
            /\ usage.cacheCreation = Default0(OwnCount(text, "c5", 5))
            /\ usage.stopReason = NULL
            /\ (\A x \in 1..Len(text) : text[x] \notin NameChars) => usage.model = NULL

\* extractBody has returned for a body cut before its closing brace
C28_Witness ==
  /\ HasReturned("extractBody")
  /\ pureCall.args[1] = <<"{", "i30", "o60", "a">>
  /\ Val(pureResult).inputTokens = 0

\* ---- the events of a stream
\* the parsed data of the data lines of a text, in order
RECURSIVE EventsOf(_)
EventsOf(lines) ==
  IF lines = <<>> THEN <<>>
  ELSE LET line == Head(lines)
           data == IF startsWith(line, <<"d", ":">>) /\ trim(slice(line, 2)) # <<"DONE">>
                   THEN JSONparse(trim(slice(line, 2))) ELSE NULL
       IN (IF data = NULL THEN <<>> ELSE <<Val(data)>>) \o EventsOf(Tail(lines))

\* the sum of a count over the events of one type
RECURSIVE SumOver(_, _, _)
SumOver(events, type, field) ==
  IF events = <<>> THEN 0
  ELSE (IF Head(events).type = Some(type) THEN Head(events)[field] ELSE 0)
         + SumOver(Tail(events), type, field)

\* the positions of the message_delta events that name a stop reason
Stops(events) ==
  {i \in 1..Len(events) : events[i].type = Some("message_delta") /\ events[i].name # <<>>}

\* C29: the Usage accumulated over a stream has, as input, cache-read and
\* cache-creation counts, the sums of those counts over all its
\* message_start events, as output count the sum of the output counts of
\* all its message_delta events, and as stop reason that of the last
\* message_delta event that has one; events of other kinds add nothing.
C29_Accumulated ==
  tapEnded =>
    LET events == EventsOf(split(tapText))
        usage == tapCalls[1]
    IN /\ usage.inputTokens = SumOver(events, "message_start", "input_tokens")
       /\ usage.cacheRead = SumOver(events, "message_start", "cache_read_input_tokens")
       /\ usage.cacheCreation =
            SumOver(events, "message_start", "cache_creation_input_tokens")
       /\ usage.outputTokens = SumOver(events, "message_delta", "output_tokens")
       /\ usage.stopReason =
            IF Stops(events) = {} THEN NULL
            ELSE Some(events[CHOOSE i \in Stops(events) :
                               \A j \in Stops(events) : j <= i].name)

\* a stream with two start events and two delta events was written in
\* split chunks and ended: the counts are sums and the stop reason is the
\* last one
C29_Witness ==
  /\ tapEnded
  /\ tapSplit
  /\ tapInput = RepeatedStream
  /\ tapCalls[1].inputTokens = 60
  /\ tapCalls[1].cacheRead = 20
  /\ tapCalls[1].cacheCreation = 5
  /\ tapCalls[1].outputTokens = 120
  /\ tapCalls[1].stopReason = Some(<<"a">>)

\* the table entries whose key is a prefix of the name or of which the name
\* is a prefix
PrefixRelated(name) ==
  {i \in 1..Len(PRICING) :
     startsWith(name, PRICING[i][1]) \/ startsWith(PRICING[i][1], name)}

\* the family rates of the family words a name contains
FamilyRates(name) ==
  {Val(OwnOnly(PRICING, k[2])) :
     k \in {f \in {<<"opus", opus46>>, <<"sonnet", sonnet46>>, <<"haiku", haiku46>>} :
              lowerIncludes(name, f[1])}}

\* C30: getPricing returns for every model name a pair of rates, neither
\* missing: the exact table entry; else a table entry whose key is a prefix
\* of the name or of which the name is a prefix; else the rates of a family
\* whose word the lower-cased name contains; else the sonnet rates.
C30_RatesForEveryName ==
  (HasReturned("getPricing") /\ pureCall.args[1] # NULL /\ Val(pureCall.args[1]) # <<>>) =>
    LET name == Val(pureCall.args[1])
        price == Val(pureResult)
    IN /\ price.input # NULL /\ price.output # NULL
       /\ IF OwnOnly(PRICING, name) # NULL THEN price = Val(OwnOnly(PRICING, name))
          ELSE IF PrefixRelated(name) # {}
          THEN \E i \in PrefixRelated(name) : price = PRICING[i][2]
          ELSE IF FamilyRates(name) # {} THEN price \in FamilyRates(name)
          ELSE price = Val(OwnOnly(PRICING, sonnet46))

\* C31: estimateCost is input * rate_in + output * rate_out
\* + cacheRead * rate_in * 0.1 + cacheCreation * rate_in * 1.25, per million
\* tokens, at the rates getPricing gives for the model (here in units of
\* 10^-10 USD with rates in cents); for every model name it is a number
\* that is not negative, a count of 0 contributes 0, and it is 0 when all
\* counts are 0.
C31_CostFormula ==
  HasReturned("estimateCost") =>
    LET rates == getPricing(pureCall.args[1])
        input == pureCall.args[2]
        output == pureCall.args[3]
        cacheRead == pureCall.args[4]
        cacheCreation == pureCall.args[5]
    IN /\ ~isNaN(Val(pureResult))
       /\ Val(Val(pureResult)) >= 0
       /\ rates.input # NULL /\ rates.output # NULL
       /\ LET cost == Val(Val(pureResult)) IN
          /\ cost = 100 * input * Val(rates.input) + 100 * output * Val(rates.output)
                      + 10 * cacheRead * Val(rates.input)
                      + 125 * cacheCreation * Val(rates.input)
          /\ (output = 0 /\ cacheRead = 0 /\ cacheCreation = 0)
               => cost = 100 * input * Val(rates.input)
          /\ (input = 0 /\ cacheRead = 0 /\ cacheCreation = 0)
               => cost = 100 * output * Val(rates.output)
          /\ (input = 0 /\ output = 0 /\ cacheRead = 0 /\ cacheCreation = 0) => cost = 0

\* a data line whose payload is [DONE] or does not parse
Skipped(line) ==
  /\ startsWith(line, <<"d", ":">>)
  /\ \/ trim(slice(line, 2)) = <<"DONE">>
     \/ JSONparse(trim(slice(line, 2))) = NULL
NotSkipped(line) == ~Skipped(line)

\* C32: a data line whose payload is not valid JSON or is [DONE] changes
\* nothing of the accumulated Usage and stops nothing: whatever the chunks,
\* the Usage of a stream is the Usage of the events of its other lines.
C32_BadLinesSkipped ==
  tapEnded =>
    /\ tapCalls[1] = parseLines(emptyUsage, SelectSeq(split(tapText), NotSkipped))
    /\ LET events == EventsOf(SelectSeq(split(tapText), NotSkipped)) IN
         /\ tapCalls[1].inputTokens = SumOver(events, "message_start", "input_tokens")
         /\ tapCalls[1].outputTokens = SumOver(events, "message_delta", "output_tokens")

\* a stream with a malformed data line before a delta event was written in
\* split chunks and ended: the delta event was counted
C32_Witness ==
  /\ tapEnded
  /\ tapSplit
  /\ tapInput = L_bad \o <<"nl">> \o L_delta \o <<"nl">>
  /\ tapCalls[1].outputTokens = 60
  /\ tapCalls[1].inputTokens = 0

\* C33: when the stream ends with an unterminated line in the buffer, that
\* line is parsed before the completion callback is called: the Usage the
\* callback gets is that of the text received followed by a newline.
C33_LastLineParsed ==
  tapEnded =>
    /\ tapCalls[1] = parseLines(emptyUsage, split(tapText \o <<"nl">>))
    /\ tapCalls[1] = tapUsage

\* a stream whose last line, a delta event, has no newline was written in
\* split chunks and ended; the delta event is in the Usage of the callback
C33_Witness ==
  /\ tapEnded
  /\ tapSplit
  /\ tapInput = L_startC \o <<"nl">> \o L_deltaR
  /\ tapCalls[1].outputTokens = 60
  /\ tapCalls[1].stopReason = Some(<<"a", "a">>)

\* the text after the last newline of a text, the whole text without one
RECURSIVE SinceLastNewline(_)
SinceLastNewline(text) ==
  IF text = <<>> THEN <<>>
  ELSE IF text[Len(text)] = "nl" THEN <<>>
  ELSE SinceLastNewline(SubSeq(text, 1, Len(text) - 1)) \o <<text[Len(text)]>>

\* C34: after every write the tap's line buffer holds no newline and is
\* exactly the text received since the last newline, and every chunk
\* written has been pushed to the output.
C34_OnePartialLine ==
  /\ \A i \in 1..Len(tapBuffer) : tapBuffer[i] # "nl"
  /\ tapBuffer = SinceLastNewline(tapText)
  /\ Len(tapOutput) = tapPos
  /\ \A i \in 1..tapPos : tapOutput[i] = tapInput[i]

\* a line and the start of a second have been written in split chunks:
\* the buffer holds the start of the second line only
C34_Witness ==
  /\ ~tapEnded
  /\ tapSplit
  /\ tapInput = L_start \o <<"nl">> \o L_delta
  /\ tapPos = Len(tapInput) - 2
  /\ tapBuffer = SubSeq(L_delta, 1, Len(L_delta) - 2)

\* C35: the four token counts of every Usage the extractor produces are
\* non-negative integers (here of the Usage extractBody returns).
C35_CountsNonNegative ==
  HasReturned("extractBody") =>
    /\ Val(pureResult).inputTokens \in Nat
    /\ Val(pureResult).outputTokens \in Nat
    /\ Val(pureResult).cacheRead \in Nat
    /\ Val(pureResult).cacheCreation \in Nat

\* C36: the usedPercent the Alert Evaluator computes from a Snapshot whose
\* tokens-remaining is a non-negative integer is between 0 and 100, also
\* when tokens-remaining exceeds the known limit.
C36_UsedPercentRange ==
  (lastEval.remaining # NULL /\ Val(lastEval.remaining) >= 0) =>
    /\ lastEval.usedPercent # NULL
    /\ Val(lastEval.usedPercent) >= 0
    /\ Val(lastEval.usedPercent) <= 100

\* C37: under every threshold configuration, a warning threshold above the
\* critical one included, one Snapshot evaluation never emits both a tier
\* alert and a 'reset' event.
C37_NoAlertWithReset ==
  ~(Emits(emitted, "reset") > 0 /\ \E t \in Tiers : Emits(emitted, t) > 0)

\* the dedup keys of the two tiers under the configuration
WarningKey == <<"warning", WarningPctOf(config)>>
CriticalKey == <<"critical", CriticalPctOf(config)>>

\* C38: when the warning threshold is not above the critical one, after
\* every evaluation AlertState is empty, {warning key} or {warning key,
\* critical key}, and it is non-empty only if the usedPercent just evaluated
\* is at or above the warning threshold.
C38_AlertStateShape ==
  WarningPctOf(config) <= CriticalPctOf(config) =>
    /\ firedAlerts \in {{}, {WarningKey}, {WarningKey, CriticalKey}}
    /\ (evals > 0 /\ lastEval.usedPercent # NULL /\ firedAlerts # {})
         => Val(lastEval.usedPercent) >= WarningPctOf(config)

\* after an evaluation at 96 % both keys are in AlertState; it followed an
\* evaluation that had cleared it
C38_Witness ==
  /\ WarningPctOf(config) <= CriticalPctOf(config)
  /\ firedAlerts = {WarningKey, CriticalKey}
  /\ lastEval.before = {}
  /\ lastEval.usedPercent = Some(96)
  /\ evals = 3

\* ---- the gateway on a database with rows (SpecRestart)
\* the latest stored Snapshot is at or above the routing threshold of 80 %
\* of the limit of 400000
LatestAtThreshold ==
  /\ dbSnapshots # <<>>
  /\ dbSnapshots[Len(dbSnapshots)].tokens_remaining # NULL
  /\ 2 * 100 * (400000 - Val(dbSnapshots[Len(dbSnapshots)].tokens_remaining))
       >= (2 * 80 - 1) * 400000

\* the ladder has a key that is the model or a prefix of it
HasDowngrade(model) ==
  \E i \in 1..Len(LadderOf(config)) : startsWith(model, LadderOf(config)[i][1])

\* C39: with routing enabled, a request whose model has a downgrade is
\* rerouted whenever the latest stored Snapshot is at or above the
\* threshold when its body has arrived, however many requests were rerouted
\* before it, and no request is rerouted when the latest stored Snapshot is
\* below the threshold.
C39_StatelessRouting ==
  [][ \A r \in Reqs :
        (pc[r] = "receiving" /\ pc'[r] = "forwarded" /\ config.routing.enabled) =>
          /\ (LatestAtThreshold /\ HasDowngrade(AskedModel(r)))
               => (tg'[r].routedFrom = Some(AskedModel(r))
                     /\ Val(forwarded'[r]).body # concat(reqBody[r]))
          /\ ~LatestAtThreshold
               => (tg'[r].routedFrom = NULL
                     /\ Val(forwarded'[r]).body = concat(reqBody[r])) ]_vars

\* the first request was rerouted on the stored row at 96 %, its response
\* stored a Snapshot at 79 %, and the second request, for the same model,
\* arrived afterwards and was not rerouted
C39_Witness ==
  /\ reqBody[1] = Q_opus /\ reqBody[2] = Q_opus
  /\ tg[1].routedFrom = Some(opus46)
  /\ Len(dbSnapshots) = 2
  /\ dbSnapshots[2].tokens_remaining = Some(84000)
  /\ forwarded[2] # NULL
  /\ tg[2].routedFrom = NULL
  /\ DecisionSnapshot(2) = Some(dbSnapshots[2])

\* C40: every Snapshot row in storage has tokens-remaining present, so has
\* every Snapshot a request's routing decision read as latest, and the step
\* that handles the head of a response without a parseable tokens-remaining
\* header leaves storage's latest Snapshot as it was.
C40_TokensAlwaysStored ==
  /\ [](/\ \A i \in 1..Len(dbSnapshots) : dbSnapshots[i].tokens_remaining # NULL
        /\ \A r \in Reqs :
             DecisionSnapshot(r) # NULL =>
               Val(DecisionSnapshot(r)).tokens_remaining # NULL)
  /\ [][ \A r \in Reqs :
           (pc[r] = "forwarded" /\ pc'[r] = "responding"
              /\ ~HasTokens(Val(proxyRes'[r]))) =>
             getLatestSnapshot(dbSnapshots') = getLatestSnapshot(dbSnapshots) ]_vars

\* the response to the first request had no rate limit headers and stored
\* nothing; the row at 96 % is still storage's latest, and it is the row the
\* second request's routing decision read and rerouted on
C40_Witness ==
  /\ pc[1] = "done"
  /\ proxyRes[1] = Some(P_sseBare)
  /\ Did(1, "insertSnapshot") = {}
  /\ dbSnapshots = StoredSnapshots
  /\ pc[2] = "forwarded"
  /\ DecisionSnapshot(2) = getLatestSnapshot(dbSnapshots)
  /\ Val(DecisionSnapshot(2)).tokens_remaining = Some(16000)
  /\ tg[2].routedFrom = Some(opus46)

====
